---- MODULE Spec2Model ----
(***************************************************************************)
(* A model of nanopond-ch.c: the pond, the main loop of main() (report,    *)
(* refresh, dump, seeding, the pick of a cell, its fetch-execute loop and   *)
(* the end-of-tick birth), read_mem, write_mem, getNeighbor and            *)
(* accessAllowed.                                                          *)
(*                                                                         *)
(* Every getRandom() call is a nondeterministic choice.  Where the code    *)
(* keeps only part of the word (x % POND_SIZE_X, & 0xf, & 0x8) the choice  *)
(* ranges over all the kept values; where the kept part is large (a whole  *)
(* genome, a RAM image, the mutation word) it ranges over a named set of   *)
(* representative values.                                                  *)
(*                                                                         *)
(* A genome (uint8_t genome[POND_DEPTH]) and the output buffer are stored  *)
(* as the sequence of their codons up to the last codon that is not        *)
(* OP_STOP; Codon and SetCodon read and write the array this stands for.   *)
(***************************************************************************)
EXTENDS Naturals, Integers, Sequences, FiniteSets, TLC

\* ------------------------------------------------------------------------
\* Tunable parameters (nanopond-ch.c, "Tunable parameters").  The pond size
\* and the four frequencies are scaled down so that a run covers several
\* periods of each; the others keep the values of the source.
\* ------------------------------------------------------------------------
POND_SIZE_X == 2
POND_SIZE_Y == 2
REPORT_FREQUENCY == 2
REFRESH_FREQUENCY == 2
DUMP_FREQUENCY == 3
INFLOW_FREQUENCY == 2

MUTATION_RATE == 100000
INFLOW_RATE_BASE == 2000
INFLOW_RATE_VARIATION == 4000
CELL_ENERGY_CAP == 10000
FAILED_KILL_PENALTY == 3
REPRODUCTION_COST == 20
POND_DEPTH == 512

\* Bounds of the exploration: ticks run, and mutations injected, in one run.
MaxClock == 2
MaxMutations == 1

\* ------------------------------------------------------------------------
\* Fixed constants of the instruction set and the memory map
\* ------------------------------------------------------------------------
NUM_INST == 32
INST_MASK == 31
REG_BITS == 8
REG_MASK == 255
LOGO_MASK == 31
FACING_MASK == 31
RAM_SIZE == 16
RAM_MASK == 15
MEM_SIZE == 32
MEM_MASK == 31
COMBINE_SENSE == 0
EXEC_START_INST == 0

OP_STOP == 0
OP_FWD == 1
OP_BACK == 2
OP_INC == 3
OP_DEC == 4
OP_READG == 5
OP_WRITEG == 6
OP_READO == 7
OP_WRITEO == 8
OP_LOOP == 9
OP_REP == 10
OP_TURN == 11
OP_XCHG == 12
OP_KILL == 13
OP_SHARE == 14
OP_ZERO == 15
OP_SETP == 16
OP_NEXTB == 17
OP_PREVB == 18
OP_NEXTM == 19
OP_PREVM == 20
OP_READM == 21
OP_WRITEM == 22
OP_CLEARM == 23
OP_ADD == 24
OP_SUB == 25
OP_MUL == 26
OP_DIV == 27
OP_SHL == 28
OP_SHR == 29
OP_SETMP == 30
OP_RAND == 31

DIRECTIONS == 6

\* static const uint8_t dirmap[NUM_INST]
dirmap ==
  << 0, 1, 2, 3, 4, 5,
     0, 1, 2, 3, 3, 4, 5,
     0, 1, 2, 3, 4, 5,
     0, 1, 2, 2, 3, 4, 5,
     0, 1, 2, 3, 4, 5 >>

\* static const uintptr_t BITS_IN_FIVEBIT_WORD[32]
BITS_IN_FIVEBIT_WORD ==
  << 0,1,1,2,1,2,2,3,1,2,2,3,2,3,3,4,1,2,2,3,2,3,3,4,2,3,3,4,3,4,4,5 >>

\* ------------------------------------------------------------------------
\* Bit operations of C on unsigned words
\* ------------------------------------------------------------------------
RECURSIVE BitXor(_, _)
BitXor(a, b) ==
  IF a = 0 THEN b
  ELSE IF b = 0 THEN a
  ELSE (((a % 2) + (b % 2)) % 2) + (2 * BitXor(a \div 2, b \div 2))

\* (w >> n) & 1
Bit(w, n) == (w \div (2 ^ n)) % 2

\* ------------------------------------------------------------------------
\* Genomes: the array genome[0 .. POND_DEPTH-1] held as a sequence without
\* its trailing OP_STOP codons.
\* ------------------------------------------------------------------------
Trim(s) ==
  LET keep == { k \in 1 .. Len(s) : s[k] # OP_STOP } IN
  IF keep = { } THEN << >>
  ELSE SubSeq(s, 1, CHOOSE k \in keep : \A j \in k + 1 .. Len(s) : s[j] = OP_STOP)

\* genome[i]
Codon(g, i) == IF i < Len(g) THEN g[i + 1] ELSE OP_STOP

\* genome[i] = v
SetCodon(g, i, v) ==
  IF v # OP_STOP
  THEN [k \in 1 .. (IF i + 1 > Len(g) THEN i + 1 ELSE Len(g)) |->
          IF k = i + 1 THEN v ELSE IF k <= Len(g) THEN g[k] ELSE OP_STOP]
  ELSE IF i + 1 > Len(g) THEN g
  ELSE Trim([g EXCEPT ![i + 1] = OP_STOP])

\* for (i = 0; i < POND_DEPTH; ++i) genome[i] = OP_STOP
StopGenome == << >>

ZeroRam == [i \in 0 .. RAM_SIZE - 1 |-> 0]

\* genome[i] = getRandom() & INST_MASK, w being the words drawn
MaskGenome(w) == Trim([k \in 1 .. Len(w) |-> w[k] % (INST_MASK + 1)])

\* ram[i] = getRandom() & REG_MASK, w being the words drawn
MaskRam(w) == [i \in 0 .. RAM_SIZE - 1 |-> w[i] % (REG_MASK + 1)]

\* ------------------------------------------------------------------------
\* The pond
\* ------------------------------------------------------------------------
Pos == (0 .. POND_SIZE_X - 1) \X (0 .. POND_SIZE_Y - 1)

\* the state of every cell after "Clear the pond and initialize all genomes"
InitCell ==
  [ ID |-> 0, parentID |-> 0, lineage |-> 0, generation |-> 0, energy |-> 0,
    logo |-> 0, facing |-> 0, genome |-> StopGenome, ram |-> ZeroRam ]

ZeroCounters ==
  [ instructionExecutions |-> [i \in 0 .. NUM_INST - 1 |-> 0],
    cellExecutions |-> 0,
    viableCellsReplaced |-> 0, viableCellsKilled |-> 0, viableCellShares |-> 0,
    memSpecialReads |-> 0, memPrivateReads |-> 0,
    memOutputReads |-> 0, memInputReads |-> 0,
    memSpecialWrites |-> 0, memPrivateWrites |-> 0,
    memOutputWrites |-> 0, memInputWrites |-> 0 ]

\* getNeighbor, DIRECTIONS == 6: the position of the neighbour in a pond of
\* W by H cells (POND_SIZE_X by POND_SIZE_Y in the source)
X_EAST(W, x) == IF x < W - 1 THEN x + 1 ELSE 0
X_WEST(W, x) == IF x # 0 THEN x - 1 ELSE W - 1
Y_SOUTH(H, y) == IF y < H - 1 THEN y + 1 ELSE 0
Y_NORTH(H, y) == IF y # 0 THEN y - 1 ELSE H - 1

\* getNeighbor taking the even rows for the odd ones
getNeighborRowsSwapped(W, H, x, y, dir) ==
  LET d == dirmap[dir + 1] IN
  IF y % 2 = 0
  THEN CASE d = 0 -> << X_EAST(W, x), Y_NORTH(H, y) >>
         [] d = 1 -> << X_EAST(W, x), y >>
         [] d = 2 -> << X_EAST(W, x), Y_SOUTH(H, y) >>
         [] d = 3 -> << x, Y_SOUTH(H, y) >>
         [] d = 4 -> << X_WEST(W, x), y >>
         [] d = 5 -> << x, Y_NORTH(H, y) >>
         [] OTHER -> << x, y >>
  ELSE CASE d = 0 -> << x, Y_NORTH(H, y) >>
         [] d = 1 -> << X_EAST(W, x), y >>
         [] d = 2 -> << x, Y_SOUTH(H, y) >>
         [] d = 3 -> << X_WEST(W, x), Y_SOUTH(H, y) >>
         [] d = 4 -> << X_WEST(W, x), y >>
         [] d = 5 -> << X_WEST(W, x), Y_NORTH(H, y) >>
         [] OTHER -> << x, y >>

\* getNeighbor going west as well in direction 5 of an odd row
getNeighborOddWest(W, H, x, y, dir) ==
  LET d == dirmap[dir + 1] IN
  IF y % 2 = 1
  THEN CASE d = 0 -> << X_EAST(W, x), Y_NORTH(H, y) >>
         [] d = 1 -> << X_EAST(W, x), y >>
         [] d = 2 -> << X_EAST(W, x), Y_SOUTH(H, y) >>
         [] d = 3 -> << x, Y_SOUTH(H, y) >>
         [] d = 4 -> << X_WEST(W, x), y >>
         [] d = 5 -> << X_WEST(W, x), Y_NORTH(H, y) >>
         [] OTHER -> << x, y >>
  ELSE CASE d = 0 -> << x, Y_NORTH(H, y) >>
         [] d = 1 -> << X_EAST(W, x), y >>
         [] d = 2 -> << x, Y_SOUTH(H, y) >>
         [] d = 3 -> << X_WEST(W, x), Y_SOUTH(H, y) >>
         [] d = 4 -> << X_WEST(W, x), y >>
         [] d = 5 -> << X_WEST(W, x), Y_NORTH(H, y) >>
         [] OTHER -> << x, y >>

\* getNeighborIn with DIR_3 of an even row going south only
getNeighborEvenSouth(W, H, x, y, dir) ==
  LET d == dirmap[dir + 1] IN
  IF y % 2 = 1
  THEN CASE d = 0 -> << X_EAST(W, x), Y_NORTH(H, y) >>
         [] d = 1 -> << X_EAST(W, x), y >>
         [] d = 2 -> << X_EAST(W, x), Y_SOUTH(H, y) >>
         [] d = 3 -> << x, Y_SOUTH(H, y) >>
         [] d = 4 -> << X_WEST(W, x), y >>
         [] d = 5 -> << x, Y_NORTH(H, y) >>
         [] OTHER -> << x, y >>
  ELSE CASE d = 0 -> << x, Y_NORTH(H, y) >>
         [] d = 1 -> << X_EAST(W, x), y >>
         [] d = 2 -> << x, Y_SOUTH(H, y) >>
         [] d = 3 -> << x, Y_SOUTH(H, y) >>
         [] d = 4 -> << X_WEST(W, x), y >>
         [] d = 5 -> << X_WEST(W, x), Y_NORTH(H, y) >>
         [] OTHER -> << x, y >>

getNeighborIn(W, H, x, y, dir) ==
  LET d == dirmap[dir + 1] IN
  IF y % 2 = 1
  THEN CASE d = 0 -> << X_EAST(W, x), Y_NORTH(H, y) >>
         [] d = 1 -> << X_EAST(W, x), y >>
         [] d = 2 -> << X_EAST(W, x), Y_SOUTH(H, y) >>
         [] d = 3 -> << x, Y_SOUTH(H, y) >>
         [] d = 4 -> << X_WEST(W, x), y >>
         [] d = 5 -> << x, Y_NORTH(H, y) >>
         [] OTHER -> << x, y >>
  ELSE CASE d = 0 -> << x, Y_NORTH(H, y) >>
         [] d = 1 -> << X_EAST(W, x), y >>
         [] d = 2 -> << x, Y_SOUTH(H, y) >>
         [] d = 3 -> << X_WEST(W, x), Y_SOUTH(H, y) >>
         [] d = 4 -> << X_WEST(W, x), y >>
         [] d = 5 -> << X_WEST(W, x), Y_NORTH(H, y) >>
         [] OTHER -> << x, y >>

\* getNeighbor(x, y, dir) in the pond of the model
getNeighbor(x, y, dir) == getNeighborIn(POND_SIZE_X, POND_SIZE_Y, x, y, dir)

\* accessAllowed with the two branches of its conditional exchanged
accessAllowedSwapped(c2, c1guess, sense, rnd) ==
  IF sense # 0
  THEN \/ (rnd % 16) <= BITS_IN_FIVEBIT_WORD[(BitXor(c2.logo, c1guess) % 32) + 1]
       \/ c2.parentID = 0
  ELSE \/ (rnd % 16) >= BITS_IN_FIVEBIT_WORD[(BitXor(c2.logo, c1guess) % 32) + 1]
       \/ c2.parentID = 0

\* accessAllowed without the parentID test of sense 1
accessAllowedNoParent(c2, c1guess, sense, rnd) ==
  IF sense # 0
  THEN (rnd % 16) >= BITS_IN_FIVEBIT_WORD[(BitXor(c2.logo, c1guess) % 32) + 1]
  ELSE \/ (rnd % 16) <= BITS_IN_FIVEBIT_WORD[(BitXor(c2.logo, c1guess) % 32) + 1]
       \/ c2.parentID = 0

\* accessAllowed comparing with < in sense 0
accessAllowedStrict(c2, c1guess, sense, rnd) ==
  IF sense # 0
  THEN \/ (rnd % 16) >= BITS_IN_FIVEBIT_WORD[(BitXor(c2.logo, c1guess) % 32) + 1]
       \/ c2.parentID = 0
  ELSE \/ (rnd % 16) < BITS_IN_FIVEBIT_WORD[(BitXor(c2.logo, c1guess) % 32) + 1]
       \/ c2.parentID = 0

\* accessAllowed(c2, c1guess, sense), rnd being the word getRandom() returns
accessAllowed(c2, c1guess, sense, rnd) ==
  IF sense # 0
  THEN \/ (rnd % 16) >= BITS_IN_FIVEBIT_WORD[(BitXor(c2.logo, c1guess) % 32) + 1]
       \/ c2.parentID = 0
  ELSE \/ (rnd % 16) <= BITS_IN_FIVEBIT_WORD[(BitXor(c2.logo, c1guess) % 32) + 1]
       \/ c2.parentID = 0


\* ------------------------------------------------------------------------
\* The memory window: read_mem and write_mem
\* ------------------------------------------------------------------------
\* the value read_mem returns (a uint8_t)
read_mem(pd, x, y, ptr_mem) ==
  LET c == pd[<< x, y >>] IN
  CASE ptr_mem = 0 -> c.logo % 256
    [] ptr_mem = 1 -> c.facing % 256
    [] ptr_mem = 2 -> IF c.energy = 0 THEN 0
                      ELSE IF c.energy > 126975 THEN 31
                      ELSE (1 + (c.energy \div 4096)) % 256
    [] ptr_mem = 3 -> c.lineage % (REG_MASK + 1)
    [] ptr_mem = 4 -> c.ID % (REG_MASK + 1)
    [] ptr_mem = 5 -> c.parentID % (REG_MASK + 1)
    [] ptr_mem = 6 -> (c.generation \div (2 ^ REG_BITS)) % (REG_MASK + 1)
    [] ptr_mem = 7 -> c.generation % (REG_MASK + 1)
    [] ptr_mem \in 8 .. 15 -> c.ram[ptr_mem % 8]
    [] ptr_mem \in 16 .. 23 -> c.ram[8 + (ptr_mem % 8)]
    [] ptr_mem \in 24 .. 31 ->
         pd[getNeighbor(x, y, c.facing)].ram[8 + (ptr_mem % 8)]
    [] OTHER -> 0

\* the statistics counter read_mem increments
read_mem_count(sc, ptr_mem) ==
  CASE ptr_mem \in 0 .. 2 -> [sc EXCEPT !.memSpecialReads = @ + 1]
    [] ptr_mem \in 8 .. 15 -> [sc EXCEPT !.memPrivateReads = @ + 1]
    [] ptr_mem \in 16 .. 23 -> [sc EXCEPT !.memOutputReads = @ + 1]
    [] ptr_mem \in 24 .. 31 -> [sc EXCEPT !.memInputReads = @ + 1]
    [] OTHER -> sc

\* write_mem_access asking with sense 0
write_mem_accessSense0(pd, x, y, ptr_mem, rnd) ==
  LET c == pd[<< x, y >>] IN
  IF ptr_mem \in 24 .. 31
  THEN IF accessAllowed(pd[getNeighbor(x, y, c.facing)], c.logo, 0, rnd)
       THEN "allowed" ELSE "denied"
  ELSE "none"

\* whether write_mem calls accessAllowed, and what it answers
write_mem_access(pd, x, y, ptr_mem, rnd) ==
  LET c == pd[<< x, y >>] IN
  IF ptr_mem \in 24 .. 31
  THEN IF accessAllowed(pd[getNeighbor(x, y, c.facing)], c.logo, 1, rnd)
       THEN "allowed" ELSE "denied"
  ELSE "none"

\* write_mem storing a logo without "& LOGO_MASK"
write_memLogoUnmasked(pd, x, y, ptr_mem, value, rnd) ==
  LET c == pd[<< x, y >>] IN
  CASE ptr_mem = 0 -> [pd EXCEPT ![<< x, y >>].logo = value]
    [] ptr_mem = 1 -> [pd EXCEPT ![<< x, y >>].facing = value % (FACING_MASK + 1)]
    [] ptr_mem \in 2 .. 7 -> pd
    [] ptr_mem \in 8 .. 15 ->
         [pd EXCEPT ![<< x, y >>].ram[ptr_mem % 8] = value % (REG_MASK + 1)]
    [] ptr_mem \in 16 .. 23 ->
         [pd EXCEPT ![<< x, y >>].ram[8 + (ptr_mem % 8)] = value % (REG_MASK + 1)]
    [] ptr_mem \in 24 .. 31 ->
         IF write_mem_access(pd, x, y, ptr_mem, rnd) = "allowed"
         THEN [pd EXCEPT ![getNeighbor(x, y, c.facing)].ram[8 + (ptr_mem % 8)] =
                 value % (REG_MASK + 1)]
         ELSE pd
    [] OTHER -> pd

\* write_mem taking the direction of the neighbour from the value written
write_memValueDir(pd, x, y, ptr_mem, value, rnd) ==
  LET c == pd[<< x, y >>] IN
  CASE ptr_mem = 0 -> [pd EXCEPT ![<< x, y >>].logo = value % (LOGO_MASK + 1)]
    [] ptr_mem = 1 -> [pd EXCEPT ![<< x, y >>].facing = value % (FACING_MASK + 1)]
    [] ptr_mem \in 2 .. 7 -> pd
    [] ptr_mem \in 8 .. 15 ->
         [pd EXCEPT ![<< x, y >>].ram[ptr_mem % 8] = value % (REG_MASK + 1)]
    [] ptr_mem \in 16 .. 23 ->
         [pd EXCEPT ![<< x, y >>].ram[8 + (ptr_mem % 8)] = value % (REG_MASK + 1)]
    [] ptr_mem \in 24 .. 31 ->
         IF write_mem_access(pd, x, y, ptr_mem, rnd) = "allowed"
         THEN [pd EXCEPT ![getNeighbor(x, y, value % (FACING_MASK + 1))]
                            .ram[8 + (ptr_mem % 8)] = value % (REG_MASK + 1)]
         ELSE pd
    [] OTHER -> pd

\* the pond after write_mem
write_mem(pd, x, y, ptr_mem, value, rnd) ==
  LET c == pd[<< x, y >>] IN
  CASE ptr_mem = 0 -> [pd EXCEPT ![<< x, y >>].logo = value % (LOGO_MASK + 1)]
    [] ptr_mem = 1 -> [pd EXCEPT ![<< x, y >>].facing = value % (FACING_MASK + 1)]
    [] ptr_mem \in 2 .. 7 -> pd
    [] ptr_mem \in 8 .. 15 ->
         [pd EXCEPT ![<< x, y >>].ram[ptr_mem % 8] = value % (REG_MASK + 1)]
    [] ptr_mem \in 16 .. 23 ->
         [pd EXCEPT ![<< x, y >>].ram[8 + (ptr_mem % 8)] = value % (REG_MASK + 1)]
    [] ptr_mem \in 24 .. 31 ->
         IF write_mem_access(pd, x, y, ptr_mem, rnd) = "allowed"
         THEN [pd EXCEPT ![getNeighbor(x, y, c.facing)].ram[8 + (ptr_mem % 8)] =
                 value % (REG_MASK + 1)]
         ELSE pd
    [] OTHER -> pd

\* write_mem_count counting as read_mem does: nothing for 0x03..0x07
write_mem_countAsReads(sc, ptr_mem) ==
  CASE ptr_mem \in 0 .. 2 -> [sc EXCEPT !.memSpecialWrites = @ + 1]
    [] ptr_mem \in 8 .. 15 -> [sc EXCEPT !.memPrivateWrites = @ + 1]
    [] ptr_mem \in 16 .. 23 -> [sc EXCEPT !.memOutputWrites = @ + 1]
    [] ptr_mem \in 24 .. 31 -> [sc EXCEPT !.memInputWrites = @ + 1]
    [] OTHER -> sc

\* the statistics counter write_mem increments
write_mem_count(sc, ptr_mem) ==
  CASE ptr_mem \in 0 .. 7 -> [sc EXCEPT !.memSpecialWrites = @ + 1]
    [] ptr_mem \in 8 .. 15 -> [sc EXCEPT !.memPrivateWrites = @ + 1]
    [] ptr_mem \in 16 .. 23 -> [sc EXCEPT !.memOutputWrites = @ + 1]
    [] ptr_mem \in 24 .. 31 -> [sc EXCEPT !.memInputWrites = @ + 1]
    [] OTHER -> sc


\* ------------------------------------------------------------------------
\* State
\* ------------------------------------------------------------------------
VARIABLES
  pond,            \* struct Cell pond[POND_SIZE_X][POND_SIZE_Y]
  clock,           \* uint64_t clock
  cellIdCounter,   \* uint64_t cellIdCounter
  statCounters,    \* struct PerReportStatCounters statCounters
  totalEnergy, maxCellEnergy, maxLivingCellEnergy,   \* globals doReport sets
  lastTotalViableReplicators,                        \* static of doReport
  x, y,            \* the position seeding and the pick draw
  outputBuf, ptr_ioPtr, loopStack, falseLoopDepth, stop, reg, instPtr,
  ptr_mem, inst,   \* the virtual machine of main()
  pc,              \* the place of main() in the body of its main loop
  idLog,           \* history: the ids handed out so far, in order, with the event
  lastAccess,      \* history: what accessAllowed answered in the last step
  skipHist,        \* history: the last skip mode: the loop stack when it
                   \* began and the LOOPs and REPs met in it, the first included
  nMut,            \* history: the mutations injected so far
  lastMut,         \* history: the second word drawn by the mutation of the
                   \* last step (NoMut when the step injected none)
  lastRnd,         \* history: the word drawn for the last access test or RAND
                   \* (0 when the last step drew none)
  tickLog,         \* history: the steps of the main loop's body taken so far
                   \* in the current tick
  aa,              \* the inputs and result of one accessAllowed call (SpecAccess)
  gn,              \* the inputs and result of one getNeighbor call (SpecNeighbor)
  sp,              \* a SETP and the instruction after it, in a build of a
                   \* given POND_DEPTH (SpecSetp)
  run              \* history: the energy the executing cell held when the
                   \* core execution loop was entered, the iterations of the
                   \* loop since, and the energy the cell received in them
                   \* beyond what it held after the charge

vars ==
  << pond, clock, cellIdCounter, statCounters, totalEnergy, maxCellEnergy,
     maxLivingCellEnergy, lastTotalViableReplicators, x, y, outputBuf,
     ptr_ioPtr, loopStack, falseLoopDepth, stop, reg, instPtr, ptr_mem, inst,
     pc, idLog, lastAccess, skipHist, nMut, lastMut, lastRnd, tickLog, aa, gn, sp, run >>

vmVars ==
  << outputBuf, ptr_ioPtr, loopStack, falseLoopDepth, stop, reg, instPtr,
     ptr_mem, inst >>

reportVars ==
  << totalEnergy, maxCellEnergy, maxLivingCellEnergy, lastTotalViableReplicators >>

\* uintptr_t loopStackPtr: loopStack holds the entries below it
loopStackPtr == Len(loopStack)

\* ------------------------------------------------------------------------
\* One iteration of the core execution loop, as a function of the machine
\* m (the pond, the counters and the virtual machine) and of the words the
\* iteration draws from getRandom()
\* ------------------------------------------------------------------------
Machine ==
  [ x |-> x, y |-> y, pond |-> pond, cellIdCounter |-> cellIdCounter,
    statCounters |-> statCounters, outputBuf |-> outputBuf,
    ptr_ioPtr |-> ptr_ioPtr, loopStack |-> loopStack,
    falseLoopDepth |-> falseLoopDepth, stop |-> stop, reg |-> reg,
    instPtr |-> instPtr, ptr_mem |-> ptr_mem, inst |-> inst,
    idLog |-> idLog, lastAccess |-> "none", continue |-> FALSE ]

Self(m) == m.pond[<< m.x, m.y >>]
Facing(m) == getNeighbor(m.x, m.y, Self(m).facing)

\* inst = pptr->genome[instPtr]
Fetch(m) == [m EXCEPT !.inst = Codon(Self(m).genome, m.instPtr)]

\* Mutate testing bit 16 where the code tests bit 17, and bit 17 for bit 16
MutateBitsSwapped(m, tmp) ==
  IF Bit(tmp, 16) = 1
  THEN IF Bit(tmp, 17) = 1
       THEN [m EXCEPT !.inst = tmp % (INST_MASK + 1)]
       ELSE [m EXCEPT !.reg = tmp % (REG_MASK + 1)]
  ELSE IF Bit(tmp, 17) = 1
       THEN [m EXCEPT !.ptr_mem = tmp % (MEM_MASK + 1)]
       ELSE [m EXCEPT !.pond[<< m.x, m.y >>].ram[(tmp \div 256) % (RAM_MASK + 1)] =
               tmp % (REG_MASK + 1)]

\* the body of "if ((getRandom() & 0xffffffff) < MUTATION_RATE)", tmp being
\* the second word drawn
Mutate(m, tmp) ==
  IF Bit(tmp, 17) = 1
  THEN IF Bit(tmp, 16) = 1
       THEN [m EXCEPT !.inst = tmp % (INST_MASK + 1)]
       ELSE [m EXCEPT !.reg = tmp % (REG_MASK + 1)]
  ELSE IF Bit(tmp, 16) = 1
       THEN [m EXCEPT !.ptr_mem = tmp % (MEM_MASK + 1)]
       ELSE [m EXCEPT !.pond[<< m.x, m.y >>].ram[(tmp \div 256) % (RAM_MASK + 1)] =
               tmp % (REG_MASK + 1)]

\* an iteration that costs no energy
ChargeNothing(m) == m

\* --pptr->energy
Charge(m) == [m EXCEPT !.pond[<< m.x, m.y >>].energy = @ - 1]

\* skip mode that does not count the LOOPs it meets
SkipInstFlat(m) ==
  IF m.inst = 10 THEN [m EXCEPT !.falseLoopDepth = @ - 1] ELSE m

\* the branch "if (falseLoopDepth)"
SkipInst(m) ==
  IF m.inst = 9 THEN [m EXCEPT !.falseLoopDepth = @ + 1]
  ELSE IF m.inst = 10 THEN [m EXCEPT !.falseLoopDepth = @ - 1]
  ELSE m

\* statCounters.instructionExecutions[inst] += 1.0
CountInst(m) == [m EXCEPT !.statCounters.instructionExecutions[m.inst] = @ + 1]

\* a read_mem call: its value and its counter
MemValue(m) == read_mem(m.pond, m.x, m.y, m.ptr_mem)
MemCounted(m) == [m EXCEPT !.statCounters = read_mem_count(@, m.ptr_mem)]

\* FWD wrapping one slot too late
OpFwdLate(m) ==
  [m EXCEPT !.ptr_ioPtr = IF @ + 1 > POND_DEPTH THEN 0 ELSE @ + 1]

OpFwd(m) ==
  [m EXCEPT !.ptr_ioPtr = IF @ + 1 >= POND_DEPTH THEN 0 ELSE @ + 1]

OpBack(m) ==
  [m EXCEPT !.ptr_ioPtr = IF @ # 0 THEN @ - 1 ELSE POND_DEPTH - 1]

OpSetp(m) == [m EXCEPT !.ptr_ioPtr = m.reg]

OpWriteg(m) ==
  [m EXCEPT !.pond[<< m.x, m.y >>].genome =
     SetCodon(@, m.ptr_ioPtr, m.reg % (INST_MASK + 1))]

OpWriteo(m) ==
  [m EXCEPT !.outputBuf = SetCodon(@, m.ptr_ioPtr, m.reg % (INST_MASK + 1))]

\* LOOP testing for the full stack one entry too late
OpLoopLate(m) ==
  IF m.reg # 0
  THEN IF Len(m.loopStack) > POND_DEPTH
       THEN [m EXCEPT !.stop = TRUE]
       ELSE [m EXCEPT !.loopStack = Append(@, m.instPtr)]
  ELSE [m EXCEPT !.falseLoopDepth = 1]

OpLoop(m) ==
  IF m.reg # 0
  THEN IF Len(m.loopStack) >= POND_DEPTH
       THEN [m EXCEPT !.stop = TRUE]
       ELSE [m EXCEPT !.loopStack = Append(@, m.instPtr)]
  ELSE [m EXCEPT !.falseLoopDepth = 1]

\* REP without the continue: the slot after the popped position is next
OpRepAdvance(m) ==
  IF Len(m.loopStack) # 0
  THEN LET top == m.loopStack[Len(m.loopStack)]
           popped == [m EXCEPT !.loopStack = SubSeq(@, 1, Len(@) - 1)]
       IN  IF m.reg # 0 THEN [popped EXCEPT !.instPtr = top] ELSE popped
  ELSE m

OpRep(m) ==
  IF Len(m.loopStack) # 0
  THEN LET top == m.loopStack[Len(m.loopStack)]
           popped == [m EXCEPT !.loopStack = SubSeq(@, 1, Len(@) - 1)]
       IN  IF m.reg # 0
           THEN [popped EXCEPT !.instPtr = top, !.continue = TRUE]
           ELSE popped
  ELSE m

\* TURN turning the cell as well, as the line commented out in the source does
OpTurnFacing(m, rnd, rnd2) ==
  LET tmpptr == m.pond[Facing(m)]
      t == [m EXCEPT !.pond[<< m.x, m.y >>].facing = m.reg % (FACING_MASK + 1)]
  IN
  IF Self(m).generation > 2
  THEN IF tmpptr.generation > 2
       THEN IF accessAllowed(tmpptr, m.reg, COMBINE_SENSE, rnd)
            THEN [t EXCEPT !.reg = Codon(IF Bit(rnd2, 3) = 1
                                         THEN Self(m).genome
                                         ELSE tmpptr.genome, m.ptr_ioPtr),
                           !.lastAccess = "allowed"]
            ELSE [t EXCEPT !.reg = Codon(Self(m).genome, m.ptr_ioPtr),
                           !.lastAccess = "denied"]
       ELSE [t EXCEPT !.reg = Codon(Self(m).genome, m.ptr_ioPtr)]
  ELSE [t EXCEPT !.reg = Codon(Self(m).genome, m.ptr_ioPtr)]

OpTurn(m, rnd, rnd2) ==
  LET tmpptr == m.pond[Facing(m)] IN
  IF Self(m).generation > 2
  THEN IF tmpptr.generation > 2
       THEN IF accessAllowed(tmpptr, m.reg, COMBINE_SENSE, rnd)
            THEN [m EXCEPT !.reg = Codon(IF Bit(rnd2, 3) = 1
                                         THEN Self(m).genome
                                         ELSE tmpptr.genome, m.ptr_ioPtr),
                           !.lastAccess = "allowed"]
            ELSE [m EXCEPT !.reg = Codon(Self(m).genome, m.ptr_ioPtr),
                           !.lastAccess = "denied"]
       ELSE [m EXCEPT !.reg = Codon(Self(m).genome, m.ptr_ioPtr)]
  ELSE [m EXCEPT !.reg = Codon(Self(m).genome, m.ptr_ioPtr)]

\* XCHG that leaves the instruction pointer on its own slot
OpXchgNoSkip(m) ==
  LET ip == IF m.instPtr + 1 >= POND_DEPTH THEN EXEC_START_INST
            ELSE m.instPtr + 1
  IN  [m EXCEPT !.reg = Codon(Self(m).genome, ip),
                !.pond[<< m.x, m.y >>].genome =
                   SetCodon(@, ip, m.reg % (INST_MASK + 1))]

OpXchg(m) ==
  LET ip == IF m.instPtr + 1 >= POND_DEPTH THEN EXEC_START_INST
            ELSE m.instPtr + 1
  IN  [m EXCEPT !.instPtr = ip,
                !.reg = Codon(Self(m).genome, ip),
                !.pond[<< m.x, m.y >>].genome =
                   SetCodon(@, ip, m.reg % (INST_MASK + 1))]

\* KilledCell with the lineage of the cell killed left as it is
KilledCellKeepLineage(c, id) ==
  [c EXCEPT !.genome = StopGenome, !.ID = id, !.parentID = 0,
            !.generation = 0, !.logo = 0, !.facing = 0]

\* the cell a permitted KILL leaves behind ("clear all")
KilledCell(c, id) ==
  [c EXCEPT !.genome = StopGenome, !.ID = id, !.parentID = 0, !.lineage = id,
            !.generation = 0, !.logo = 0, !.facing = 0]

\* FailedKillEnergy with the penalty taken from the energy before the charge
FailedKillEnergyPreCharge(e) ==
  LET tmp == (e + 1) \div FAILED_KILL_PENALTY IN
  IF e > tmp THEN e - tmp ELSE 0

\* the energy of the attacker after a denied KILL of a viable neighbour
FailedKillEnergy(e) ==
  LET tmp == e \div FAILED_KILL_PENALTY IN
  IF e > tmp THEN e - tmp ELSE 0

OpKill(m, rnd) ==
  LET tmpptr == m.pond[Facing(m)] IN
  IF accessAllowed(tmpptr, m.reg, 0, rnd)
  THEN [m EXCEPT
          !.statCounters.viableCellsKilled =
             IF tmpptr.generation > 2 THEN @ + 1 ELSE @,
          !.pond[Facing(m)] = KilledCell(@, m.cellIdCounter),
          !.idLog = Append(@, [event |-> "kill", id |-> m.cellIdCounter]),
          !.cellIdCounter = @ + 1,
          !.lastAccess = "allowed"]
  ELSE IF tmpptr.generation > 2
       THEN [m EXCEPT !.pond[<< m.x, m.y >>].energy = FailedKillEnergy(@),
                      !.lastAccess = "denied"]
       ELSE [m EXCEPT !.lastAccess = "denied"]

\* SharedPond with the neighbour's half rounded up
SharedPondRoundUp(pd, self, nb) ==
  LET tmp == pd[self].energy + pd[nb].energy
      pd1 == [pd EXCEPT ![nb].energy = (tmp + 1) \div 2]
  IN  [pd1 EXCEPT ![self].energy = tmp - pd1[nb].energy]

\* tmp = pptr->energy + tmpptr->energy; tmpptr->energy = tmp / 2;
\* pptr->energy = tmp - tmpptr->energy
SharedPond(pd, self, nb) ==
  LET tmp == pd[self].energy + pd[nb].energy
      pd1 == [pd EXCEPT ![nb].energy = tmp \div 2]
  IN  [pd1 EXCEPT ![self].energy = tmp - pd1[nb].energy]

\* SHARE without the access test
OpShareUnasked(m, rnd) ==
  LET tmpptr == m.pond[Facing(m)] IN
  [m EXCEPT
     !.statCounters.viableCellShares =
        IF tmpptr.generation > 2 THEN @ + 1 ELSE @,
     !.pond = SharedPond(@, << m.x, m.y >>, Facing(m))]

OpShare(m, rnd) ==
  LET tmpptr == m.pond[Facing(m)] IN
  IF accessAllowed(tmpptr, m.reg, 1, rnd)
  THEN [m EXCEPT
          !.statCounters.viableCellShares =
             IF tmpptr.generation > 2 THEN @ + 1 ELSE @,
          !.pond = SharedPond(@, << m.x, m.y >>, Facing(m)),
          !.lastAccess = "allowed"]
  ELSE [m EXCEPT !.lastAccess = "denied"]

OpWritem(m, rnd) ==
  [m EXCEPT !.statCounters = write_mem_count(@, m.ptr_mem),
            !.pond = write_mem(@, m.x, m.y, m.ptr_mem, m.reg, rnd),
            !.lastAccess = write_mem_access(m.pond, m.x, m.y, m.ptr_mem, rnd)]

\* DIV leaving reg as it is when the operand is 0
OpDivKeepReg(m) ==
  LET tmp == MemValue(m)
      m1 == MemCounted(m)
  IN  IF tmp # 0
      THEN [MemCounted(m1) EXCEPT !.reg = (m.reg \div MemValue(m1)) % (REG_MASK + 1)]
      ELSE m1

OpDiv(m) ==
  LET tmp == MemValue(m)
      m1 == MemCounted(m)
  IN  IF tmp # 0
      THEN [MemCounted(m1) EXCEPT !.reg = (m.reg \div MemValue(m1)) % (REG_MASK + 1)]
      ELSE [m1 EXCEPT !.reg = 0]

\* switch (inst)
Dispatch(m, rnd, rnd2) ==
  CASE m.inst = OP_SETP -> OpSetp(m)
    [] m.inst = OP_NEXTB -> [m EXCEPT !.ptr_mem = (@ + 8) % (MEM_MASK + 1)]
    [] m.inst = OP_PREVB -> [m EXCEPT !.ptr_mem = (@ + MEM_SIZE - 8) % (MEM_MASK + 1)]
    [] m.inst = OP_NEXTM -> [m EXCEPT !.ptr_mem = (@ + 1) % (MEM_MASK + 1)]
    [] m.inst = OP_PREVM -> [m EXCEPT !.ptr_mem = (@ + MEM_SIZE - 1) % (MEM_MASK + 1)]
    [] m.inst = OP_READM -> [MemCounted(m) EXCEPT !.reg = MemValue(m)]
    [] m.inst = OP_WRITEM -> OpWritem(m, rnd)
    [] m.inst = OP_CLEARM -> [m EXCEPT !.pond[<< m.x, m.y >>].ram = ZeroRam]
    [] m.inst = OP_ADD ->
         [MemCounted(m) EXCEPT !.reg = (@ + MemValue(m)) % (REG_MASK + 1)]
    [] m.inst = OP_SUB ->
         [MemCounted(m) EXCEPT !.reg = (@ + REG_MASK + 1 - MemValue(m)) % (REG_MASK + 1)]
    [] m.inst = OP_MUL ->
         [MemCounted(m) EXCEPT !.reg = (@ * MemValue(m)) % (REG_MASK + 1)]
    [] m.inst = OP_DIV -> OpDiv(m)
    [] m.inst = OP_SHL -> [m EXCEPT !.reg = (@ * 2) % (REG_MASK + 1)]
    [] m.inst = OP_SHR -> [m EXCEPT !.reg = (@ \div 2) % (REG_MASK + 1)]
    [] m.inst = OP_SETMP -> [m EXCEPT !.ptr_mem = m.reg % (MEM_MASK + 1)]
    [] m.inst = OP_RAND -> [m EXCEPT !.reg = rnd % (REG_MASK + 1)]
    [] m.inst = OP_ZERO -> [m EXCEPT !.reg = 0]
    [] m.inst = OP_FWD -> OpFwd(m)
    [] m.inst = OP_BACK -> OpBack(m)
    [] m.inst = OP_INC -> [m EXCEPT !.reg = (@ + 1) % (REG_MASK + 1)]
    [] m.inst = OP_DEC -> [m EXCEPT !.reg = (@ + REG_MASK) % (REG_MASK + 1)]
    [] m.inst = OP_READG -> [m EXCEPT !.reg = Codon(Self(m).genome, m.ptr_ioPtr)]
    [] m.inst = OP_WRITEG -> OpWriteg(m)
    [] m.inst = OP_READO -> [m EXCEPT !.reg = Codon(m.outputBuf, m.ptr_ioPtr)]
    [] m.inst = OP_WRITEO -> OpWriteo(m)
    [] m.inst = OP_LOOP -> OpLoop(m)
    [] m.inst = OP_REP -> OpRep(m)
    [] m.inst = OP_TURN -> OpTurn(m, rnd, rnd2)
    [] m.inst = OP_XCHG -> OpXchg(m)
    [] m.inst = OP_KILL -> OpKill(m, rnd)
    [] m.inst = OP_SHARE -> OpShare(m, rnd)
    [] m.inst = OP_STOP -> [m EXCEPT !.stop = TRUE]
    [] OTHER -> m

\* Execute with STOP ending the execution in skip mode too
ExecuteStopInSkip(m, rnd, rnd2) ==
  IF m.falseLoopDepth # 0
  THEN IF m.inst = OP_STOP THEN [m EXCEPT !.stop = TRUE] ELSE SkipInst(m)
  ELSE Dispatch(CountInst(m), rnd, rnd2)

\* "Execute the instruction"
Execute(m, rnd, rnd2) ==
  IF m.falseLoopDepth # 0 THEN SkipInst(m) ELSE Dispatch(CountInst(m), rnd, rnd2)

\* "Advance the instruction pointer", which REP's continue jumps over
Advance(m) ==
  IF m.continue THEN m
  ELSE [m EXCEPT !.instPtr = IF @ + 1 >= POND_DEPTH THEN EXEC_START_INST ELSE @ + 1]


\* ------------------------------------------------------------------------
\* The indices one iteration uses, m being the machine after the fetch and
\* the mutation
\* ------------------------------------------------------------------------
\* into genome[]: the fetch, READG, WRITEG, TURN, and the slot XCHG skips
GenomeIndices(m) ==
  { m.instPtr } \cup
  (IF m.falseLoopDepth # 0 THEN { }
   ELSE IF m.inst \in { OP_READG, OP_WRITEG, OP_TURN } THEN { m.ptr_ioPtr }
   ELSE IF m.inst = OP_XCHG
        THEN { IF m.instPtr + 1 >= POND_DEPTH THEN EXEC_START_INST
               ELSE m.instPtr + 1 }
   ELSE { })

\* into outputBuf[]: READO and WRITEO
OutputIndices(m) ==
  IF m.falseLoopDepth = 0 /\ m.inst \in { OP_READO, OP_WRITEO }
  THEN { m.ptr_ioPtr } ELSE { }

\* into loopStack[]: the push of LOOP and the pop of REP
StackIndices(m) ==
  IF m.falseLoopDepth # 0 THEN { }
  ELSE IF m.inst = OP_LOOP /\ m.reg # 0 /\ Len(m.loopStack) < POND_DEPTH
       THEN { Len(m.loopStack) }
  ELSE IF m.inst = OP_REP /\ Len(m.loopStack) # 0
       THEN { Len(m.loopStack) - 1 }
  ELSE { }

\* the instructions that call read_mem or write_mem
MemInsts == { OP_READM, OP_WRITEM, OP_ADD, OP_SUB, OP_MUL, OP_DIV }

\* into ram[]: read_mem and write_mem
RamIndices(m) ==
  IF m.falseLoopDepth = 0 /\ m.inst \in MemInsts
  THEN IF m.ptr_mem \in 8 .. 15 THEN { m.ptr_mem % 8 }
       ELSE IF m.ptr_mem \in 16 .. 31 THEN { 8 + (m.ptr_mem % 8) }
       ELSE { }
  ELSE { }

\* into dirmap[]: getNeighbor, called by TURN, KILL, SHARE and by read_mem
\* and write_mem for the neighbour's RAM
DirIndices(m) ==
  IF m.falseLoopDepth # 0 THEN { }
  ELSE IF \/ m.inst \in { OP_KILL, OP_SHARE }
          \/ m.inst = OP_TURN /\ Self(m).generation > 2
          \/ m.inst \in MemInsts /\ m.ptr_mem \in 24 .. 31
       THEN { Self(m).facing }
  ELSE { }

\* ------------------------------------------------------------------------
\* The values the model lets getRandom() produce where the kept part of
\* the word is large
\* ------------------------------------------------------------------------
\* genomes a seeding can draw (512 words & INST_MASK), without the trailing
\* OP_STOP codons
GenomeKillShare == << OP_KILL, OP_INC, OP_WRITEO, OP_SHARE >>
GenomeLoops ==
  << OP_INC, OP_INC, OP_LOOP, OP_DEC, OP_REP, OP_INC, OP_LOOP, OP_ZERO,
     OP_LOOP, OP_LOOP, OP_REP, OP_REP, OP_REP, OP_REP >>
GenomePointers ==
  << OP_BACK, OP_FWD, OP_RAND, OP_SETP, OP_READG, OP_SETMP, OP_READM >>
SeedGenomes == { GenomeKillShare, GenomeLoops, GenomePointers }

\* genomes whose execution is long: a loop that never ends by itself, a LOOP
\* in every slot but the first, a LOOP met with reg = 0 and no REP, and the
\* same followed by instructions that would write were they dispatched
GenomeSpin == << OP_INC, OP_LOOP, OP_REP >>
GenomeOverflow == << OP_INC >> \o [i \in 1 .. POND_DEPTH - 1 |-> OP_LOOP]
GenomeFalseLoop == << OP_LOOP >>
GenomeSkip == << OP_LOOP, OP_KILL, OP_SHARE, OP_WRITEG, OP_WRITEM >>
\* an XCHG in the first slot, whose operand is a STOP, and one in the last
GenomeXchg ==
  << OP_XCHG, OP_STOP >> \o [i \in 1 .. POND_DEPTH - 3 |-> OP_INC]
    \o << OP_XCHG >>
RunGenomes ==
  { GenomeSpin, GenomeOverflow, GenomeFalseLoop, GenomeSkip, GenomeXchg,
    GenomePointers }

\* the 16 words a seeding or a birth can draw for a RAM image
RamDraws == { [i \in 0 .. RAM_SIZE - 1 |-> (293 * i) + 200] }

\* getRandom() % INFLOW_RATE_VARIATION
InflowDraws == { 0, INFLOW_RATE_VARIATION - 1 }
RunInflowDraws == { INFLOW_RATE_VARIATION }

\* the second word of a mutation: one word for each of its four branches
MutWords ==
  { 3 * 65536 + 5 * 32 + OP_REP,      \* inst = OP_REP
    2 * 65536 + 7 * 256,              \* reg = 0
    65536 + 3 * 32 + 31,              \* ptr_mem = 31
    4096 + 15 * 256 + 255 }           \* ram[15] = 255

\* lastMut when no mutation was injected
NoMut == 0 - 1

\* getRandom() & 0xffffffff in the mutation test: the two words next to the
\* threshold
MutTestDraws == { MUTATION_RATE - 1, MUTATION_RATE }

\* the words RAND draws, of which "& REG_MASK" keeps 0 and 255
RandBytes == { 256, 511 }

\* ------------------------------------------------------------------------
\* doReport
\* ------------------------------------------------------------------------
RECURSIVE SumEnergy(_, _)
SumEnergy(pd, S) ==
  IF S = {} THEN 0
  ELSE LET p == CHOOSE q \in S : TRUE IN pd[p].energy + SumEnergy(pd, S \ {p})

MaxEnergy(pd, S) ==
  IF S = {} THEN 0
  ELSE LET p == CHOOSE q \in S : \A r \in S : pd[q].energy >= pd[r].energy
       IN  pd[p].energy

Active(pd) == { p \in Pos : pd[p].energy # 0 }
Living(pd) == { p \in Active(pd) : pd[p].generation > 1 }
Viable(pd) == { p \in Active(pd) : pd[p].generation > 2 }

\* Report with the period of the dump
ReportAtDumpPeriod(Max) ==
  /\ pc = "report"
  /\ clock < Max
  /\ IF clock % DUMP_FREQUENCY = 0
     THEN /\ totalEnergy' = SumEnergy(pond, Active(pond))
          /\ maxCellEnergy' = MaxEnergy(pond, Active(pond))
          /\ maxLivingCellEnergy' = MaxEnergy(pond, Living(pond))
          /\ lastTotalViableReplicators' = Cardinality(Viable(pond))
          /\ statCounters' = ZeroCounters
          /\ tickLog' = Append(tickLog, "report")
     ELSE UNCHANGED << reportVars, statCounters, tickLog >>
  /\ pc' = "refresh"
  /\ UNCHANGED << pond, clock, cellIdCounter, x, y, vmVars, idLog, lastAccess, skipHist,
                  nMut, lastMut, lastRnd, aa, gn, sp, run >>

\* "if (!(clock % REPORT_FREQUENCY)) doReport(clock)", in a run of Max ticks
Report(Max) ==
  /\ pc = "report"
  /\ clock < Max
  /\ IF clock % REPORT_FREQUENCY = 0
     THEN /\ totalEnergy' = SumEnergy(pond, Active(pond))
          /\ maxCellEnergy' = MaxEnergy(pond, Active(pond))
          /\ maxLivingCellEnergy' = MaxEnergy(pond, Living(pond))
          /\ lastTotalViableReplicators' = Cardinality(Viable(pond))
          /\ statCounters' = ZeroCounters
          /\ tickLog' = Append(tickLog, "report")
     ELSE UNCHANGED << reportVars, statCounters, tickLog >>
  /\ pc' = "refresh"
  /\ UNCHANGED << pond, clock, cellIdCounter, x, y, vmVars, idLog, lastAccess, skipHist,
                  nMut, lastMut, lastRnd, aa, gn, sp, run >>

DoReport == Report(MaxClock)

\* "if (!(clock % REFRESH_FREQUENCY))": the events polled and the pixels
\* written are outside the state modelled; the pond is only read (getColor),
\* and x and y are the variables the two for loops count with
DoRefresh ==
  /\ pc = "refresh"
  /\ IF clock % REFRESH_FREQUENCY = 0
     THEN x' = POND_SIZE_X /\ y' = POND_SIZE_Y /\ tickLog' = Append(tickLog, "refresh")
     ELSE UNCHANGED << x, y, tickLog >>
  /\ pc' = "dump"
  /\ UNCHANGED << pond, clock, cellIdCounter, statCounters, reportVars,
                  vmVars, idLog, lastAccess, skipHist, nMut, lastMut, lastRnd, aa, gn, sp, run >>

\* "if (!(clock % DUMP_FREQUENCY)) doDump(clock)": doDump reads the pond and
\* writes a file, with x and y of its own
DoDump ==
  /\ pc = "dump"
  /\ tickLog' = IF clock % DUMP_FREQUENCY = 0 THEN Append(tickLog, "dump")
                ELSE tickLog
  /\ pc' = "seed"
  /\ UNCHANGED << pond, clock, cellIdCounter, statCounters, reportVars, x, y,
                  vmVars, idLog, lastAccess, skipHist, nMut, lastMut, lastRnd, aa, gn, sp, run >>

\* ------------------------------------------------------------------------
\* Seeding
\* ------------------------------------------------------------------------
\* SeededCell without the test of CELL_ENERGY_CAP
SeededCellUncapped(c, id, var, g, ram) ==
  [ ID |-> id, parentID |-> 0, lineage |-> id, generation |-> 0,
    logo |-> 0, facing |-> 0,
    energy |-> c.energy + INFLOW_RATE_BASE + (var % INFLOW_RATE_VARIATION),
    genome |-> MaskGenome(g), ram |-> MaskRam(ram) ]

\* the cell seeding leaves at the position drawn; var is the word drawn for
\* the energy, g and ram are the words drawn for the genome and the RAM
SeededCell(c, id, var, g, ram) ==
  [ ID |-> id, parentID |-> 0, lineage |-> id, generation |-> 0,
    logo |-> 0, facing |-> 0,
    energy |-> IF c.energy < CELL_ENERGY_CAP
               THEN c.energy + INFLOW_RATE_BASE + (var % INFLOW_RATE_VARIATION)
               ELSE c.energy,
    genome |-> MaskGenome(g), ram |-> MaskRam(ram) ]

\* "if (!(clock % INFLOW_FREQUENCY))", the genomes drawn ranging over Genomes
\* and the words drawn for the energy over Draws
Seed(Genomes, Draws) ==
  /\ pc = "seed"
  /\ IF clock % INFLOW_FREQUENCY = 0
     THEN \E sx \in 0 .. POND_SIZE_X - 1, sy \in 0 .. POND_SIZE_Y - 1,
             var \in Draws, g \in Genomes, ram \in RamDraws :
            /\ x' = sx
            /\ y' = sy
            /\ pond' = [pond EXCEPT ![<< sx, sy >>] =
                          SeededCell(@, cellIdCounter, var, g, ram)]
            /\ idLog' = Append(idLog, [event |-> "seed", id |-> cellIdCounter])
            /\ instPtr' = 0
            /\ cellIdCounter' = cellIdCounter + 1
            /\ tickLog' = Append(tickLog, "seed")
     ELSE UNCHANGED << x, y, pond, idLog, instPtr, cellIdCounter, tickLog >>
  /\ pc' = "pick"
  /\ UNCHANGED << clock, statCounters, reportVars, outputBuf, ptr_ioPtr,
                  loopStack, falseLoopDepth, stop, reg, ptr_mem, inst,
                  lastAccess, skipHist, nMut, lastMut, lastRnd, aa, gn, sp, run >>

\* ------------------------------------------------------------------------
\* "Pick a random cell to execute" and "Reset the state of the VM"
\* ------------------------------------------------------------------------
Pick ==
  /\ pc = "pick"
  /\ \E px \in 0 .. POND_SIZE_X - 1, py \in 0 .. POND_SIZE_Y - 1 :
       /\ x' = px
       /\ y' = py
  /\ outputBuf' = StopGenome
  /\ ptr_ioPtr' = 0
  /\ loopStack' = << >>
  /\ falseLoopDepth' = 0
  /\ stop' = FALSE
  /\ reg' = 0
  /\ instPtr' = EXEC_START_INST
  /\ ptr_mem' = 0
  /\ statCounters' = [statCounters EXCEPT !.cellExecutions = @ + 1]
  /\ tickLog' = Append(tickLog, "pick")
  /\ run' = [ energy |-> pond[<< x', y' >>].energy, steps |-> 0, gained |-> 0 ]
  /\ pc' = "exec"
  /\ UNCHANGED << pond, clock, cellIdCounter, reportVars, inst, idLog,
                  lastAccess, skipHist, nMut, lastMut, lastRnd, aa, gn, sp >>

\* ------------------------------------------------------------------------
\* The core execution loop
\* ------------------------------------------------------------------------
\* the loop condition without the test of the energy
LoopCondStopOnly == ~stop

\* while (pptr->energy && (!stop))
LoopCond == pond[<< x, y >>].energy # 0 /\ ~stop

\* the words an instruction draws: rnd for accessAllowed (& 0xf) and RAND,
\* rnd2 for the choice TURN makes (& 0x8)
RndDraws(m) ==
  IF m.falseLoopDepth # 0 THEN { 0 }
  ELSE IF m.inst \in { OP_KILL, OP_SHARE } THEN 0 .. 15
  ELSE IF /\ m.inst = OP_TURN
          /\ Self(m).generation > 2
          /\ m.pond[Facing(m)].generation > 2 THEN 0 .. 15
  ELSE IF m.inst = OP_WRITEM /\ m.ptr_mem >= 24 THEN 0 .. 15
  ELSE IF m.inst = OP_RAND THEN RandBytes
  ELSE { 0 }

Rnd2Draws(m) ==
  IF m.falseLoopDepth = 0 /\ m.inst = OP_TURN THEN { 0, 8 } ELSE { 0 }

\* one iteration after the mutation test: charge, execute, advance (each
\* stage bound to its value before the next one uses it)
Iterate(m, rnd, rnd2) ==
  CHOOSE n \in { Advance(e) : e \in { Execute(c, rnd, rnd2) :
                                         c \in { Charge(m) } } } : TRUE

\* the machine is written back to the variables
Store(m) ==
  /\ pond' = m.pond
  /\ cellIdCounter' = m.cellIdCounter
  /\ statCounters' = m.statCounters
  /\ outputBuf' = m.outputBuf
  /\ ptr_ioPtr' = m.ptr_ioPtr
  /\ loopStack' = m.loopStack
  /\ falseLoopDepth' = m.falseLoopDepth
  /\ stop' = m.stop
  /\ reg' = m.reg
  /\ instPtr' = m.instPtr
  /\ ptr_mem' = m.ptr_mem
  /\ inst' = m.inst
  /\ idLog' = m.idLog
  /\ lastAccess' = m.lastAccess
  /\ skipHist' =
       IF falseLoopDepth # 0
       THEN [skipHist EXCEPT
               !.opens = IF m.inst = OP_LOOP THEN @ + 1 ELSE @,
               !.closes = IF m.inst = OP_REP THEN @ + 1 ELSE @]
       ELSE IF m.falseLoopDepth # 0
       THEN [stack |-> loopStack, opens |-> 1, closes |-> 0]
       ELSE skipHist

\* run outside the core execution loop
NoRun == [ energy |-> 0, steps |-> 0, gained |-> 0 ]

\* what an iteration moved to the executing cell: its energy beyond the
\* energy the charge left it
Received(charged, after) == IF after > charged THEN after - charged ELSE 0

\* one iteration of the loop; r is the word of the mutation test, and at
\* most Budget iterations of a run draw r < MUTATION_RATE
ExecStep(Budget) ==
  /\ pc = "exec"
  /\ LoopCond
  /\ \E r \in MutTestDraws :
       /\ (r < MUTATION_RATE) => nMut < Budget
       /\ IF r < MUTATION_RATE
          THEN \E tmp \in MutWords :
                 \E m \in { Mutate(Fetch(Machine), tmp) } :
                   \E rnd \in RndDraws(m), rnd2 \in Rnd2Draws(m) :
                     \E n \in { Iterate(m, rnd, rnd2) } :
                       /\ Store(n)
                       /\ nMut' = nMut + 1
                       /\ lastMut' = tmp
                       /\ lastRnd' = rnd
          ELSE \E m \in { Fetch(Machine) } :
                 \E rnd \in RndDraws(m), rnd2 \in Rnd2Draws(m) :
                   \E n \in { Iterate(m, rnd, rnd2) } :
                     /\ Store(n)
                     /\ nMut' = nMut
                     /\ lastMut' = NoMut
                     /\ lastRnd' = rnd
  /\ run' = [run EXCEPT
                !.steps = @ + 1,
                !.gained = @ + Received(pond[<< x, y >>].energy - 1,
                                        pond'[<< x, y >>].energy)]
  /\ UNCHANGED << clock, reportVars, x, y, pc, tickLog, aa, gn, sp >>

\* ------------------------------------------------------------------------
\* After the loop: the birth, and ++clock
\* ------------------------------------------------------------------------
\* BirthPond with the child given the generation of its parent
BirthPondSameGeneration(pd, self, nb, id, out, ram) ==
  LET p1 == [pd EXCEPT ![nb].ID = id]
      p2 == [p1 EXCEPT ![nb].parentID = p1[self].ID]
      p3 == [p2 EXCEPT ![nb].lineage = p2[self].lineage]
      p4 == [p3 EXCEPT ![nb].generation = p3[self].generation]
      p5 == [p4 EXCEPT ![nb].logo = 0, ![nb].facing = 0,
                       ![nb].genome = out, ![nb].ram = MaskRam(ram)]
  IN  [p5 EXCEPT ![self].energy = @ - REPRODUCTION_COST]

\* BirthPond with the child given the genome of its parent
BirthPondOwnGenome(pd, self, nb, id, out, ram) ==
  LET p1 == [pd EXCEPT ![nb].ID = id]
      p2 == [p1 EXCEPT ![nb].parentID = p1[self].ID]
      p3 == [p2 EXCEPT ![nb].lineage = p2[self].lineage]
      p4 == [p3 EXCEPT ![nb].generation = p3[self].generation + 1]
      p5 == [p4 EXCEPT ![nb].logo = 0, ![nb].facing = 0,
                       ![nb].genome = pd[self].genome, ![nb].ram = MaskRam(ram)]
  IN  [p5 EXCEPT ![self].energy = @ - REPRODUCTION_COST]

\* the pond after a birth from self into nb (the parent is debited last),
\* ram being the words drawn for the child's RAM
BirthPond(pd, self, nb, id, out, ram) ==
  LET p1 == [pd EXCEPT ![nb].ID = id]
      p2 == [p1 EXCEPT ![nb].parentID = p1[self].ID]
      p3 == [p2 EXCEPT ![nb].lineage = p2[self].lineage]
      p4 == [p3 EXCEPT ![nb].generation = p3[self].generation + 1]
      p5 == [p4 EXCEPT ![nb].logo = 0, ![nb].facing = 0,
                       ![nb].genome = out, ![nb].ram = MaskRam(ram)]
  IN  [p5 EXCEPT ![self].energy = @ - REPRODUCTION_COST]

\* BirthAttempt without the test of the neighbour's energy
BirthAttemptAnyTarget ==
  /\ pond[<< x, y >>].energy # 0
  /\ pond[<< x, y >>].energy >= REPRODUCTION_COST
  /\ Codon(outputBuf, 0) # OP_STOP

\* BirthAttempt without the test of the reproduction cost
BirthAttemptUncosted ==
  /\ pond[<< x, y >>].energy # 0
  /\ Codon(outputBuf, 0) # OP_STOP
  /\ pond[getNeighbor(x, y, pond[<< x, y >>].facing)].energy # 0

\* the conditions under which accessAllowed is asked about a birth
BirthAttempt ==
  /\ pond[<< x, y >>].energy # 0
  /\ pond[<< x, y >>].energy >= REPRODUCTION_COST
  /\ Codon(outputBuf, 0) # OP_STOP
  /\ pond[getNeighbor(x, y, pond[<< x, y >>].facing)].energy # 0

PostLoop ==
  /\ pc = "exec"
  /\ ~LoopCond
  /\ LET nb == getNeighbor(x, y, pond[<< x, y >>].facing) IN
     IF BirthAttempt
     THEN \E rnd \in 0 .. 15 :
            /\ lastRnd' = rnd
            /\ IF accessAllowed(pond[nb], reg, 0, rnd)
               THEN \E ram \in RamDraws :
                      /\ statCounters' =
                           [statCounters EXCEPT !.viableCellsReplaced =
                              IF pond[nb].generation > 2 THEN @ + 1 ELSE @]
                      /\ cellIdCounter' = cellIdCounter + 1
                      /\ pond' = BirthPond(pond, << x, y >>, nb,
                                           cellIdCounter + 1, outputBuf, ram)
                      /\ idLog' = Append(idLog, [event |-> "birth",
                                                 id |-> cellIdCounter + 1])
                      /\ lastAccess' = "allowed"
               ELSE /\ lastAccess' = "denied"
                    /\ UNCHANGED << statCounters, cellIdCounter, pond, idLog >>
     ELSE /\ lastAccess' = "none"
          /\ lastRnd' = 0
          /\ UNCHANGED << statCounters, cellIdCounter, pond, idLog >>
  /\ clock' = clock + 1
  /\ tickLog' = << >>
  /\ lastMut' = NoMut
  /\ run' = NoRun
  /\ pc' = "report"
  /\ UNCHANGED << reportVars, x, y, vmVars, nMut, skipHist, aa, gn, sp >>

\* ------------------------------------------------------------------------
\* The program
\* ------------------------------------------------------------------------
NoAccess == [ phase |-> "off" ]
NoNeighbor == [ phase |-> "off" ]
NoSetp == [ phase |-> "off" ]

InitMain ==
  /\ pond = [p \in Pos |-> InitCell]
  /\ clock = 0
  /\ cellIdCounter = 0
  /\ statCounters = ZeroCounters
  /\ totalEnergy = 0
  /\ maxCellEnergy = 0
  /\ maxLivingCellEnergy = 0
  /\ lastTotalViableReplicators = 0
  /\ x = 0
  /\ y = 0
  /\ outputBuf = StopGenome
  /\ ptr_ioPtr = 0
  /\ loopStack = << >>
  /\ falseLoopDepth = 0
  /\ stop = FALSE
  /\ reg = 0
  /\ instPtr = 0
  /\ ptr_mem = 0
  /\ inst = 0
  /\ pc = "report"
  /\ idLog = << >>
  /\ lastAccess = "none"
  /\ skipHist = [stack |-> << >>, opens |-> 0, closes |-> 0]
  /\ nMut = 0
  /\ lastMut = NoMut
  /\ run = NoRun
  /\ lastRnd = 0
  /\ tickLog = << >>

Init ==
  /\ InitMain
  /\ aa = NoAccess
  /\ gn = NoNeighbor
  /\ sp = NoSetp

Next ==
  \/ DoReport
  \/ DoRefresh
  \/ DoDump
  \/ Seed(SeedGenomes, InflowDraws)
  \/ Pick
  \/ ExecStep(MaxMutations)
  \/ PostLoop

Spec == Init /\ [][Next]_vars

\* the program without mutations, seeded with the long-running genomes; the
\* program is sequential and always takes its next step
NextRun ==
  \/ DoReport
  \/ DoRefresh
  \/ DoDump
  \/ Seed(RunGenomes, RunInflowDraws)
  \/ Pick
  \/ ExecStep(0)
  \/ PostLoop

SpecRun == Init /\ [][NextRun]_vars /\ WF_vars(NextRun)

\* ------------------------------------------------------------------------
\* The program over MaxTicks ticks, without mutations, seeded with a genome
\* that kills, shares and reproduces
\* ------------------------------------------------------------------------
MaxTicks == 4

\* the 512 words a seeding draws, of which "& INST_MASK" keeps KILL, INC,
\* WRITEO, SHARE and STOP codons
TickGenomes ==
  { << 32 + OP_KILL, 64 + OP_INC, 224 + OP_WRITEO, 992 + OP_SHARE, 4096 >> }

NextTick ==
  \/ Report(MaxTicks)
  \/ DoRefresh
  \/ DoDump
  \/ Seed(TickGenomes, RunInflowDraws)
  \/ Pick
  \/ ExecStep(0)
  \/ PostLoop

SpecTick == Init /\ [][NextTick]_vars

\* ------------------------------------------------------------------------
\* One tick from a populated pond: a cell of the third generation at (0, 0)
\* facing its neighbour in direction 0, the cell at (0, 1), from the seeding
\* step of the tick on
\* ------------------------------------------------------------------------
\* genomes of the cell at (0, 0)
GenomeAttack == << OP_KILL, OP_RAND, OP_KILL, OP_INC, OP_WRITEO >>
GenomeWritem ==
  << OP_DEC, OP_WRITEM, OP_NEXTB, OP_NEXTB, OP_NEXTB, OP_INC, OP_INC,
     OP_WRITEM, OP_READM >>
GenomeReadOnly ==
  << OP_NEXTM, OP_NEXTM, OP_DEC, OP_WRITEM, OP_NEXTM, OP_WRITEM, OP_NEXTM,
     OP_WRITEM, OP_NEXTM, OP_WRITEM, OP_NEXTM, OP_WRITEM, OP_NEXTM, OP_WRITEM >>
GenomeReads ==
  << OP_NEXTM, OP_NEXTM, OP_NEXTM, OP_READM, OP_NEXTB, OP_ADD, OP_SUB, OP_MUL,
     OP_DIV, OP_NEXTB, OP_INC, OP_DIV, OP_NEXTB, OP_DIV >>
GenomeMasks ==
  << OP_DEC, OP_WRITEM, OP_NEXTM, OP_WRITEM, OP_WRITEG, OP_WRITEO, OP_XCHG,
     OP_SETP, OP_SETMP >>
GenomeTurn == << OP_TURN, OP_FWD, OP_TURN, OP_NEXTM, OP_WRITEM >>
GenomeShare == << OP_SHARE, OP_INC, OP_INC, OP_SHARE >>
VMGenomes ==
  { GenomeAttack, GenomeWritem, GenomeReadOnly, GenomeReads, GenomeMasks,
    GenomeTurn, GenomeShare }

\* energies of the cell at (0, 0)
VMEnergies == { 0, 1, 22, 90, CELL_ENERGY_CAP }

VMRam == [i \in 0 .. RAM_SIZE - 1 |-> (11 * i) + 3]

\* the cell at (0, 0)
VMCell(g, e) ==
  [ ID |-> 7, parentID |-> 4, lineage |-> 1, generation |-> 3, energy |-> e,
    logo |-> 0, facing |-> 0, genome |-> g, ram |-> VMRam ]

\* the cell faced: a viable cell with a logo, a child of the first
\* generation, and a cell nothing was written to
VMTargets ==
  { [ ID |-> 6, parentID |-> 4, lineage |-> 1, generation |-> 3, energy |-> 4,
      logo |-> 31, facing |-> 2, genome |-> << OP_INC >>, ram |-> VMRam ],
    [ ID |-> 8, parentID |-> 2, lineage |-> 2, generation |-> 1, energy |-> 4,
      logo |-> 0, facing |-> 2, genome |-> << OP_INC >>, ram |-> VMRam ],
    [ ID |-> 5, parentID |-> 3, lineage |-> 1, generation |-> 4, energy |-> 0,
      logo |-> 30, facing |-> 1, genome |-> << OP_INC >>, ram |-> VMRam ],
    InitCell }

VMPond(g, e, t) ==
  [ p \in Pos |-> IF p = << 0, 0 >> THEN VMCell(g, e)
                  ELSE IF p = getNeighbor(0, 0, 0) THEN t
                  ELSE InitCell ]

\* a tick with a seeding and a tick without
VMClocks == { INFLOW_FREQUENCY, INFLOW_FREQUENCY + 1 }

\* the periodic steps tick t takes, among the steps named, in their order
TickFires(t, n) ==
  CASE n = "report" -> t % REPORT_FREQUENCY = 0
    [] n = "refresh" -> t % REFRESH_FREQUENCY = 0
    [] n = "dump" -> t % DUMP_FREQUENCY = 0
    [] n = "seed" -> t % INFLOW_FREQUENCY = 0

TickSteps(t, names) == SelectSeq(names, LAMBDA n : TickFires(t, n))

\* the periodic steps that come before a place in the body of the main loop
StepsBefore(stage) ==
  CASE stage = "report" -> << >>
    [] stage = "refresh" -> << "report" >>
    [] stage = "dump" -> << "report", "refresh" >>
    [] stage = "seed" -> << "report", "refresh", "dump" >>
    [] OTHER -> << "report", "refresh", "dump", "seed" >>

VMPonds ==
  { VMPond(g, e, t) : g \in VMGenomes, e \in VMEnergies, t \in VMTargets }

\* the program at the seeding step of a tick, with one of the ponds given
InitFrom(ponds) ==
  /\ pond \in ponds
  /\ clock \in VMClocks
  /\ cellIdCounter = 9
  /\ statCounters = ZeroCounters
  /\ totalEnergy = 0
  /\ maxCellEnergy = 0
  /\ maxLivingCellEnergy = 0
  /\ lastTotalViableReplicators = 0
  /\ x = 0
  /\ y = 0
  /\ outputBuf = StopGenome
  /\ ptr_ioPtr = 0
  /\ loopStack = << >>
  /\ falseLoopDepth = 0
  /\ stop = TRUE
  /\ reg = 0
  /\ instPtr = 1
  /\ ptr_mem = 0
  /\ inst = 0
  /\ pc = "seed"
  /\ idLog = << >>
  /\ lastAccess = "none"
  /\ skipHist = [stack |-> << >>, opens |-> 0, closes |-> 0]
  /\ nMut = 0
  /\ lastMut = NoMut
  /\ run = NoRun
  /\ lastRnd = 0
  /\ tickLog = TickSteps(clock, StepsBefore("seed"))
  /\ aa = NoAccess
  /\ gn = NoNeighbor
  /\ sp = NoSetp

InitVM == InitFrom(VMPonds)

NextVM ==
  \/ Seed(TickGenomes, RunInflowDraws)
  \/ Pick
  \/ ExecStep(MaxMutations)
  \/ PostLoop

SpecVM == InitVM /\ [][NextVM]_vars

\* ------------------------------------------------------------------------
\* The same tick for cells whose energy is at the cap of the seeding: the
\* cell at (0, 0) holds one unit less than CELL_ENERGY_CAP, or the cap, and
\* shares with a seeded cell that holds the same or the most a seeding can
\* leave; the seeding draws the least and the largest variation
\* ------------------------------------------------------------------------
CapEnergies == { CELL_ENERGY_CAP - 1, CELL_ENERGY_CAP }

CapTargets ==
  { [ ID |-> 8, parentID |-> 0, lineage |-> 8, generation |-> 0, energy |-> e,
      logo |-> 0, facing |-> 0, genome |-> << OP_INC >>, ram |-> VMRam ] :
    e \in { CELL_ENERGY_CAP - 1,
            CELL_ENERGY_CAP - 1 + INFLOW_RATE_BASE + INFLOW_RATE_VARIATION - 1 } }

CapPonds ==
  { VMPond(GenomeShare, e, t) : e \in CapEnergies, t \in CapTargets }

InitCap == InitFrom(CapPonds)

NextCap ==
  \/ Seed(TickGenomes, InflowDraws)
  \/ Pick
  \/ ExecStep(0)
  \/ PostLoop

SpecCap == InitCap /\ [][NextCap]_vars


\* ------------------------------------------------------------------------
\* accessAllowed on its own: one call for every target logo and parentID,
\* guess and sense drawn below, answered for each of the 16 values of
\* getRandom() & 0xf
\* ------------------------------------------------------------------------
AccessLogos == 0 .. LOGO_MASK
AccessGuesses == (0 .. 31) \cup { 224, 255 }
AccessParents == { 0, 1, 6 }

InitAccess ==
  /\ InitMain
  /\ gn = NoNeighbor
  /\ sp = NoSetp
  /\ aa \in [ phase : { "call" }, logo : AccessLogos, parentID : AccessParents,
              guess : AccessGuesses, sense : { 0, 1 }, allowed : { {} } ]

CallAccess ==
  /\ aa.phase = "call"
  /\ aa' = [aa EXCEPT
              !.phase = "return",
              !.allowed = { rnd \in 0 .. 15 :
                              accessAllowed([logo |-> aa.logo,
                                             parentID |-> aa.parentID],
                                            aa.guess, aa.sense, rnd) }]
  /\ UNCHANGED << pond, clock, cellIdCounter, statCounters, reportVars, x, y,
                  vmVars, pc, idLog, lastAccess, skipHist, nMut, lastMut,
                  lastRnd, tickLog, gn, sp, run >>

NextAccess == CallAccess

SpecAccess == InitAccess /\ [][NextAccess]_vars

\* ------------------------------------------------------------------------
\* getNeighbor on its own: one call for every cell of every pond of up to
\* MaxSide by MaxSide cells and every direction code of five bits, and, for
\* the directions 0 .. 5, a second call from the cell returned in the
\* direction three further round
\* ------------------------------------------------------------------------
MaxSide == 4

NeighborSides == 1 .. MaxSide

InitNeighbor ==
  /\ InitMain
  /\ aa = NoAccess
  /\ sp = NoSetp
  /\ gn \in { g \in [ phase : { "call" }, W : NeighborSides, H : NeighborSides,
                      x : 0 .. MaxSide - 1, y : 0 .. MaxSide - 1,
                      dir : 0 .. 31, result : { << >> }, back : { << >> } ] :
                 g.x < g.W /\ g.y < g.H }

CallNeighbor ==
  /\ gn.phase = "call"
  /\ gn' = [gn EXCEPT
              !.phase = "return",
              !.result = getNeighborIn(gn.W, gn.H, gn.x, gn.y, gn.dir)]
  /\ UNCHANGED << pond, clock, cellIdCounter, statCounters, reportVars, x, y,
                  vmVars, pc, idLog, lastAccess, skipHist, nMut, lastMut,
                  lastRnd, tickLog, aa, sp, run >>

CallOpposite ==
  /\ gn.phase = "return"
  /\ gn.dir < DIRECTIONS
  /\ gn' = [gn EXCEPT
              !.phase = "back",
              !.back = getNeighborIn(gn.W, gn.H, gn.result[1], gn.result[2],
                                     (gn.dir + 3) % DIRECTIONS)]
  /\ UNCHANGED << pond, clock, cellIdCounter, statCounters, reportVars, x, y,
                  vmVars, pc, idLog, lastAccess, skipHist, nMut, lastMut,
                  lastRnd, tickLog, aa, sp, run >>

NextNeighbor == CallNeighbor \/ CallOpposite

SpecNeighbor == InitNeighbor /\ [][NextNeighbor]_vars

\* ------------------------------------------------------------------------
\* SETP on its own: in a build of each depth the source permits for
\* POND_DEPTH among the powers of two up to 512, SETP is dispatched with each
\* value of reg, and then one of the instructions that index with the I/O
\* pointer; sp.indices are the indices that instruction uses into genome[]
\* and outputBuf[], arrays of sp.depth codons (its fetch, from slot 1, included)
\* ------------------------------------------------------------------------
SetpDepths == { 16, 32, 64, 128, 256, 512 }

IoInsts == { OP_READG, OP_WRITEG, OP_READO, OP_WRITEO, OP_TURN }

InitSetp ==
  /\ InitMain
  /\ aa = NoAccess
  /\ gn = NoNeighbor
  /\ sp \in [ phase : { "setp" }, depth : SetpDepths,
              m : [ reg : 0 .. REG_MASK, ptr_ioPtr : { 0 }, inst : { OP_SETP },
                    instPtr : { 0 }, falseLoopDepth : { 0 } ],
              indices : { { } } ]

CallSetp ==
  /\ sp.phase = "setp"
  /\ sp' = [sp EXCEPT !.phase = "use", !.m = OpSetp(sp.m)]
  /\ UNCHANGED << pond, clock, cellIdCounter, statCounters, reportVars, x, y,
                  vmVars, pc, idLog, lastAccess, skipHist, nMut, lastMut,
                  lastRnd, tickLog, aa, gn, run >>

UseIoPtr ==
  /\ sp.phase = "use"
  /\ \E op \in IoInsts :
       LET m == [sp.m EXCEPT !.inst = op, !.instPtr = 1] IN
       sp' = [sp EXCEPT !.phase = "done", !.m = m,
                        !.indices = GenomeIndices(m) \cup OutputIndices(m)]
  /\ UNCHANGED << pond, clock, cellIdCounter, statCounters, reportVars, x, y,
                  vmVars, pc, idLog, lastAccess, skipHist, nMut, lastMut,
                  lastRnd, tickLog, aa, gn, run >>

NextSetp == CallSetp \/ UseIoPtr

SpecSetp == InitSetp /\ [][NextSetp]_vars

\* ------------------------------------------------------------------------
\* Properties
\* ------------------------------------------------------------------------
LastId == idLog[Len(idLog)]

\* the step is an iteration of the core execution loop that dispatched op
\* outside skip mode
Dispatched(op) ==
  /\ pc = "exec" /\ pc' = "exec" /\ vars' # vars
  /\ falseLoopDepth = 0
  /\ inst' = op

\* the step is the end of a tick in which a birth happened
BirthStep ==
  /\ pc = "exec" /\ pc' = "report"
  /\ Len(idLog') = Len(idLog) + 1
  /\ idLog'[Len(idLog')].event = "birth"

\* C1: after every successful birth the child's parentID is the parent's ID,
\* its generation the parent's generation + 1, its lineage the parent's
\* lineage, and its ID is greater than every id handed out before (by
\* seeding, KILL or birth).
C1_Birth ==
  [][ BirthStep =>
        LET self == << x, y >>
            nb == getNeighbor(x, y, pond[self].facing)
        IN  /\ pond'[nb].parentID = pond[self].ID
            /\ pond'[nb].parentID = pond'[self].ID
            /\ pond'[nb].generation = pond[self].generation + 1
            /\ pond'[nb].lineage = pond[self].lineage
            /\ pond'[nb].ID = idLog'[Len(idLog')].id
            /\ \A i \in 1 .. Len(idLog) : pond'[nb].ID > idLog[i].id ]_vars

\* a birth has just happened, after a seeding and a KILL had handed out ids
C1_Witness ==
  /\ pc = "report"
  /\ Len(idLog) >= 3
  /\ LastId.event = "birth"
  /\ \E i \in 1 .. Len(idLog) : idLog[i].event = "kill"
  /\ \E p \in Pos : pond[p].ID = LastId.id /\ pond[p].generation = 1

\* C2: every id handed out by seeding, by a successful KILL or by a birth
\* differs from every id handed out earlier: the ids handed out increase
\* strictly.
C2_IdsFresh ==
  \A i, j \in 1 .. Len(idLog) : i < j => idLog[i].id < idLog[j].id

\* C3: whenever the SHARE branch is taken, with pot the executor's energy
\* after the charge of the instruction plus the faced neighbour's energy,
\* the neighbour ends with pot \div 2 and the executor with the rest, the odd
\* unit included; no other cell's energy changes; 11 and 4 become 8 and 7.
C3_Share ==
  [][ (Dispatched(OP_SHARE) /\ lastAccess' = "allowed") =>
        LET self == << x, y >>
            nb == getNeighbor(x, y, pond[self].facing)
            pot == (pond[self].energy - 1) + pond[nb].energy
            eg == SharedPond([p \in { "self", "nb" } |->
                                [energy |-> IF p = "self" THEN 11 ELSE 4]],
                             "self", "nb")
        IN  /\ pond'[nb].energy = pot \div 2
            /\ pond'[self].energy = pot - (pot \div 2)
            /\ pond'[self].energy + pond'[nb].energy = pot
            /\ pond'[self].energy - pond'[nb].energy = pot % 2
            /\ \A p \in Pos \ { self, nb } : pond'[p].energy = pond[p].energy
            /\ eg["self"].energy = 8 /\ eg["nb"].energy = 7 ]_vars

\* a SHARE has just split an odd pot: the executor holds the odd unit
C3_Witness ==
  /\ pc = "exec"
  /\ inst = OP_SHARE
  /\ lastAccess = "allowed"
  /\ pond[<< x, y >>].energy =
       pond[getNeighbor(x, y, pond[<< x, y >>].facing)].energy + 1


\* popcount of the low five bits of v, bit by bit
PopCount5(v) == Bit(v, 0) + Bit(v, 1) + Bit(v, 2) + Bit(v, 3) + Bit(v, 4)

\* h = popcount((target.logo XOR guess) & 0x1f)
Hamming(logo, guess) == PopCount5(BitXor(logo, guess) % 32)

\* h for every pair of a logo and a five-bit guess
HammingTable == [ l \in 0 .. 31, g \in 0 .. 31 |-> Hamming(l, g) ]

\* the number of values of rnd4 for which access to a target with a parent
\* is allowed, for every logo, guess and sense
AllowedCount ==
  [ l \in 0 .. 31, g \in 0 .. 31, s \in { 0, 1 } |->
      Cardinality({ rnd \in 0 .. 15 :
                      accessAllowed([logo |-> l, parentID |-> 1], g, s, rnd) }) ]

\* the counts found among all 32 x 32 pairs at each distance h
CountsAt ==
  [ h \in 0 .. 5, s \in { 0, 1 } |->
      { AllowedCount[l, g, s] :
          << l, g >> \in { q \in (0 .. 31) \X (0 .. 31) :
                             HammingTable[q[1], q[2]] = h } } ]

C5_Parentless ==
  (aa.phase = "return" /\ aa.parentID = 0) => aa.allowed = 0 .. 15

\* a parentless target at distance 5 asked with sense 1, where the draws
\* below 5 are allowed by the parentID test alone
C5_Witness ==
  /\ aa.phase = "return"
  /\ aa.parentID = 0
  /\ aa.sense = 1
  /\ Hamming(aa.logo, aa.guess) = 5
  /\ aa.allowed = 0 .. 15


\* the slot after slot i of a genome
NextSlot(i) == IF i = POND_DEPTH - 1 THEN 0 ELSE i + 1

\* the pointers of machine m are in range, and so is what it last pushed
PointersInRange(m) ==
  /\ m.instPtr \in 0 .. POND_DEPTH - 1
  /\ m.ptr_ioPtr \in 0 .. POND_DEPTH - 1
  /\ m.ptr_mem \in 0 .. MEM_SIZE - 1
  /\ Len(m.loopStack) \in 0 .. POND_DEPTH
  /\ m.loopStack # << >> => m.loopStack[Len(m.loopStack)] \in 0 .. POND_DEPTH - 1
  /\ \A p \in Pos : m.pond[p].facing \in 0 .. 31

\* the indices the iteration of machine m uses are in range
IndicesInRange(m) ==
  /\ GenomeIndices(m) \subseteq 0 .. POND_DEPTH - 1
  /\ OutputIndices(m) \subseteq 0 .. POND_DEPTH - 1
  /\ StackIndices(m) \subseteq 0 .. POND_DEPTH - 1
  /\ RamIndices(m) \subseteq 0 .. RAM_SIZE - 1
  /\ DirIndices(m) \subseteq 0 .. 31

\* the machines an iteration can start from in the current state: the
\* instruction fetched replaced by each opcode, and each mutation
Candidates ==
  { [Fetch(Machine) EXCEPT !.inst = op] : op \in 0 .. NUM_INST - 1 } \cup
  { Mutate(Fetch(Machine), tmp) : tmp \in MutWords }

\* C6: with POND_DEPTH >= 256, in every state of the fetch-execute loop and
\* for every opcode 0..31, fetched or produced by a mutation, the iteration
\* uses only indices in range (genome and output buffer < POND_DEPTH, RAM
\* < 16, loop stack < POND_DEPTH, direction table < 32) and leaves
\* instPtr < POND_DEPTH, ptr_ioPtr < POND_DEPTH, ptr_mem < 32 and every
\* facing < 32.
C6_Closure ==
  (pc = "exec") =>
     /\ PointersInRange(Machine)
     /\ \A i \in 1 .. Len(loopStack) : loopStack[i] \in 0 .. POND_DEPTH - 1
     /\ LoopCond =>
          \A m \in Candidates :
             /\ IndicesInRange(m)
             /\ \A rnd \in RndDraws(m), rnd2 \in Rnd2Draws(m) :
                  PointersInRange(Iterate(m, rnd, rnd2))

\* the loop stack is full and the loop goes on: the next LOOP overflows
C6_Witness ==
  /\ pc = "exec"
  /\ LoopCond
  /\ Len(loopStack) = POND_DEPTH
  /\ instPtr = 2
  /\ reg = 2

\* the step is an iteration of the core execution loop in skip mode
Skipped ==
  /\ pc = "exec" /\ pc' = "exec" /\ vars' # vars
  /\ falseLoopDepth # 0

\* C7: a LOOP dispatched with reg = 0 starts skip mode at depth 1; while
\* skipping, each LOOP met adds one level and each REP removes one, nothing
\* is pushed or popped, and execution goes on slot by slot; skip mode ends at
\* the REP that closes the LOOP that began it, normal execution resumes at
\* the slot after that REP, and the loop stack is then what it was when skip
\* mode began.
C7_Skip ==
  [][ /\ (Dispatched(OP_LOOP) /\ reg' = 0) =>
           /\ falseLoopDepth' = 1
           /\ loopStack' = loopStack
           /\ instPtr' = NextSlot(instPtr)
           /\ ~stop'
      /\ Skipped =>
           /\ falseLoopDepth' =
                IF inst' = OP_LOOP THEN falseLoopDepth + 1
                ELSE IF inst' = OP_REP THEN falseLoopDepth - 1
                ELSE falseLoopDepth
           /\ falseLoopDepth' = skipHist'.opens - skipHist'.closes
           /\ loopStack' = loopStack
           /\ loopStack' = skipHist'.stack
           /\ instPtr' = NextSlot(instPtr)
           /\ ~stop'
           /\ falseLoopDepth' = 0 => inst' = OP_REP ]_vars

\* skip mode has just ended at the REP closing a LOOP that was met with
\* reg = 0 inside a running loop, after a nested LOOP and REP were skipped
C7_Witness ==
  /\ pc = "exec"
  /\ falseLoopDepth = 0
  /\ inst = OP_REP
  /\ skipHist.opens = 2 /\ skipHist.closes = 2
  /\ Len(loopStack) = 1
  /\ loopStack = skipHist.stack
  /\ reg = 0

\* C8: a REP dispatched outside skip mode with a non-empty loop stack pops the
\* top entry; with reg # 0 the next slot fetched is the popped position
\* itself, with reg = 0 it is the slot after the REP; with an empty loop
\* stack REP leaves the loop stack empty and only moves to the next slot (an
\* iteration without mutation changes nothing else but the energy charged).
C8_Rep ==
  [][ Dispatched(OP_REP) =>
        LET self == << x, y >> IN
        /\ falseLoopDepth' = 0
        /\ stop' = stop
        /\ ptr_ioPtr' = ptr_ioPtr
        /\ outputBuf' = outputBuf
        /\ cellIdCounter' = cellIdCounter
        /\ nMut' = nMut =>
             /\ reg' = reg
             /\ ptr_mem' = ptr_mem
             /\ pond' = [pond EXCEPT ![self].energy = @ - 1]
        /\ IF loopStack # << >>
           THEN /\ loopStack' = SubSeq(loopStack, 1, Len(loopStack) - 1)
                /\ instPtr' = IF reg' # 0 THEN loopStack[Len(loopStack)]
                              ELSE NextSlot(instPtr)
           ELSE /\ loopStack' = << >>
                /\ instPtr' = NextSlot(instPtr) ]_vars

\* a REP has just jumped back: the slot to fetch next holds the LOOP whose
\* entry was popped, which is not the slot after the REP
C8_Witness ==
  /\ pc = "exec"
  /\ inst = OP_REP
  /\ falseLoopDepth = 0
  /\ reg # 0
  /\ loopStack = << >>
  /\ instPtr = 2
  /\ Codon(pond[<< x, y >>].genome, instPtr) = OP_LOOP

\* the step is an iteration of the core execution loop
Iteration == pc = "exec" /\ pc' = "exec" /\ vars' # vars

\* C9: the fetch-execute loop of the cell picked always comes to its end;
\* every iteration lowers the energy held by the pond, stop is set only by a
\* STOP dispatched outside skip mode or by a LOOP that finds the loop stack
\* full, and the loop is left only with stop set or with the energy of the
\* cell at zero.
C9_TickFinishes ==
  /\ (pc = "exec") ~> (pc = "report")
  /\ [][ /\ Iteration => SumEnergy(pond', Pos) < SumEnergy(pond, Pos)
         /\ (Iteration /\ stop') =>
              /\ falseLoopDepth = 0
              /\ \/ inst' = OP_STOP
                 \/ /\ inst' = OP_LOOP
                    /\ reg' # 0
                    /\ Len(loopStack) >= POND_DEPTH
         /\ (pc = "exec" /\ pc' # "exec") =>
              (stop \/ pond[<< x, y >>].energy = 0) ]_vars

\* a tick has ended by exhaustion in skip mode: the instruction pointer has
\* wrapped around the genome three times, over STOP codons that stopped
\* nothing
C9_Witness ==
  /\ pc = "report"
  /\ clock = 1
  /\ falseLoopDepth = 4
  /\ ~stop
  /\ inst = OP_STOP
  /\ pond[<< x, y >>].energy = 0
  /\ pond[<< x, y >>].genome = GenomeFalseLoop


\* the step leaves the fetch-execute loop: the end of a tick
EndOfTick == pc = "exec" /\ pc' = "report"

\* C11: a birth happens at the end of a tick only if the executor's energy
\* after execution is >= REPRODUCTION_COST, out[0] is not STOP, the faced
\* neighbour's energy is > 0 and the sense-0 access test with the final reg as
\* the guess allows it; a birth debits the executor exactly REPRODUCTION_COST
\* and leaves the child's energy unchanged; if a condition fails no cell is
\* overwritten and nothing is debited; no child lands in a cell with energy 0.
C11_BirthGate ==
  [][ EndOfTick =>
        LET self == << x, y >>
            nb == getNeighbor(x, y, pond[self].facing)
            conditions ==
              /\ pond[self].energy >= REPRODUCTION_COST
              /\ Codon(outputBuf, 0) # OP_STOP
              /\ pond[nb].energy > 0
              /\ accessAllowed(pond[nb], reg, 0, lastRnd')
        IN  /\ BirthStep =>
                 /\ conditions
                 /\ pond'[self].energy = pond[self].energy - REPRODUCTION_COST
                 /\ pond'[nb].energy = pond[nb].energy
                 /\ pond'[nb].energy > 0
                 /\ \A p \in Pos \ { self, nb } : pond'[p] = pond[p]
            /\ ~conditions =>
                 /\ pond' = pond
                 /\ ~BirthStep
                 /\ cellIdCounter' = cellIdCounter ]_vars

\* a birth into the viable cell at (0, 1), allowed by the draw 4 because
\* the final reg, 1, is at distance 4 from the logo 31 of that cell
C11_Witness ==
  /\ pc = "report"
  /\ idLog # << >>
  /\ LastId.event = "birth"
  /\ lastAccess = "allowed"
  /\ lastRnd = 4
  /\ reg = 1
  /\ pond[<< 0, 1 >>].ID = LastId.id
  /\ pond[<< 0, 1 >>].parentID = 7
  /\ pond[<< 0, 1 >>].generation = 4
  /\ pond[<< 0, 0 >>].genome = GenomeAttack


\* C12: when a KILL is denied and the faced neighbour is viable
\* (generation >= 3), the attacker loses e \div FAILED_KILL_PENALTY, e being
\* its energy after the one-unit charge of the KILL, its energy staying >= 0,
\* and the target is unchanged (with divisor 3, an attacker that began the
\* instruction with 90 ends it with 60); when the neighbour is not viable the
\* attacker pays only the charge.
C12_FailedKill ==
  [][ Dispatched(OP_KILL) =>
        LET self == << x, y >>
            nb == getNeighbor(x, y, pond[self].facing)
            e == pond[self].energy - 1
        IN  ~accessAllowed(pond[nb], reg', 0, lastRnd') =>
              /\ pond'[nb] = pond[nb]
              /\ pond'[self].energy >= 0
              /\ IF pond[nb].generation >= 3
                 THEN /\ pond'[self].energy = e - (e \div FAILED_KILL_PENALTY)
                      /\ (FAILED_KILL_PENALTY = 3 /\ pond[self].energy = 90) =>
                           pond'[self].energy = 60
                 ELSE pond'[self].energy = e ]_vars

\* the first KILL of the cell at (0, 0), which began with 90, was denied by
\* the viable cell it faces
C12_Witness ==
  /\ pc = "exec"
  /\ inst = OP_KILL
  /\ instPtr = 1
  /\ lastAccess = "denied"
  /\ lastRnd > 5
  /\ pond[<< x, y >>].energy = 60
  /\ pond[<< 0, 1 >>].generation = 3
  /\ pond[<< 0, 1 >>].logo = 31


\* C13: when a KILL is permitted, the faced neighbour ends with a genome of
\* all STOP, parentID 0, generation 0, logo 0, facing 0 and ID = lineage = an
\* id that was never handed out before, its energy and its RAM unchanged; the
\* attacker pays only the charge of the instruction, and viableCellsKilled
\* grows by one iff the neighbour had generation >= 3.
C13_Kill ==
  [][ Dispatched(OP_KILL) =>
        LET self == << x, y >>
            nb == getNeighbor(x, y, pond[self].facing)
        IN  accessAllowed(pond[nb], reg', 0, lastRnd') =>
              /\ \A i \in 0 .. POND_DEPTH - 1 : Codon(pond'[nb].genome, i) = OP_STOP
              /\ pond'[nb].parentID = 0
              /\ pond'[nb].generation = 0
              /\ pond'[nb].logo = 0
              /\ pond'[nb].facing = 0
              /\ pond'[nb].lineage = pond'[nb].ID
              /\ \A i \in 1 .. Len(idLog) : idLog[i].id # pond'[nb].ID
              /\ pond'[nb].energy = pond[nb].energy
              /\ pond'[nb].ram = pond[nb].ram
              /\ pond'[self].energy = pond[self].energy - 1
              /\ statCounters'.viableCellsKilled =
                   statCounters.viableCellsKilled +
                   (IF pond[nb].generation >= 3 THEN 1 ELSE 0) ]_vars


\* the step is the seeding of a tick that seeds
SeedStep == pc = "seed" /\ pc' = "pick" /\ clock % INFLOW_FREQUENCY = 0

\* C14: each seeding gives the chosen cell an id that was never handed out
\* before, parentID 0, lineage equal to that id, generation 0, logo 0, facing 0
\* and a genome whose every codon is in 0..31; if the cell's energy was below
\* CELL_ENERGY_CAP it grows by an amount in INFLOW_RATE_BASE ..
\* INFLOW_RATE_BASE + INFLOW_RATE_VARIATION - 1, and if it exceeded the cap it
\* is unchanged.
C14_Seeding ==
  [][ SeedStep =>
        LET c == pond[<< x', y' >>]
            d == pond'[<< x', y' >>]
        IN  /\ \A i \in 1 .. Len(idLog) : idLog[i].id # d.ID
            /\ d.parentID = 0
            /\ d.lineage = d.ID
            /\ d.generation = 0
            /\ d.logo = 0
            /\ d.facing = 0
            /\ \A i \in 0 .. POND_DEPTH - 1 : Codon(d.genome, i) \in 0 .. 31
            /\ c.energy < CELL_ENERGY_CAP =>
                 (d.energy - c.energy) \in
                   INFLOW_RATE_BASE ..
                     INFLOW_RATE_BASE + INFLOW_RATE_VARIATION - 1
            /\ c.energy > CELL_ENERGY_CAP => d.energy = c.energy ]_vars


C16_Masked ==
  /\ \A p \in Pos :
       /\ pond[p].logo \in 0 .. 31
       /\ pond[p].facing \in 0 .. 31
       /\ \A k \in 1 .. Len(pond[p].genome) : pond[p].genome[k] \in 0 .. 31
       /\ \A i \in 0 .. RAM_SIZE - 1 : pond[p].ram[i] \in 0 .. 255
  /\ \A k \in 1 .. Len(outputBuf) : outputBuf[k] \in 0 .. 31
  /\ OP_STOP \in 0 .. 31
  /\ pc = "exec" => (reg \in 0 .. 255 /\ ptr_mem \in 0 .. 31)

\* the cell at (0, 0) has written reg = 255 to its logo, its facing, its
\* genome and the output buffer, each stored within its mask
C16_Witness ==
  /\ pc = "exec"
  /\ reg = 255
  /\ pond[<< 0, 0 >>].logo = 31
  /\ pond[<< 0, 0 >>].facing = 31
  /\ Codon(pond[<< 0, 0 >>].genome, 0) = 31
  /\ Codon(outputBuf, 0) = 31


\* C17: a WRITEM with mp in 0x02..0x07 changes no cell (the iteration charges
\* its one unit of energy, and a mutation may have written a RAM byte before
\* it) and only increments the special-write counter; no WRITEM, at any mp,
\* writes the energy, lineage, ID, parentID or generation of a cell.
C17_ReadOnly ==
  [][ Dispatched(OP_WRITEM) =>
        LET self == << x, y >> IN
        /\ \A p \in Pos :
             /\ pond'[p].ID = pond[p].ID
             /\ pond'[p].parentID = pond[p].parentID
             /\ pond'[p].lineage = pond[p].lineage
             /\ pond'[p].generation = pond[p].generation
             /\ pond'[p].energy =
                  IF p = self THEN pond[p].energy - 1 ELSE pond[p].energy
        /\ ptr_mem' \in 2 .. 7 =>
             /\ \A p \in Pos :
                  /\ pond'[p].logo = pond[p].logo
                  /\ pond'[p].facing = pond[p].facing
                  /\ pond'[p].genome = pond[p].genome
                  /\ (p # self \/ nMut' = nMut) => pond'[p].ram = pond[p].ram
             /\ statCounters' =
                  [statCounters EXCEPT
                     !.memSpecialWrites = @ + 1,
                     !.instructionExecutions[OP_WRITEM] = @ + 1]
             /\ cellIdCounter' = cellIdCounter
             /\ outputBuf' = outputBuf ]_vars

\* the cell at (0, 0) has written reg = 255 to each of the slots 2..7
C17_Witness ==
  /\ pc = "exec"
  /\ inst = OP_WRITEM
  /\ ptr_mem = 7
  /\ reg = 255
  /\ statCounters.memSpecialWrites = 6
  /\ pond[<< 0, 0 >>].genome = GenomeReadOnly
  /\ pond[<< 0, 0 >>].energy = 90 - 14


\* C18: a WRITEM with mp in 0x18..0x1f stores value & 0xff into byte
\* 8 + (mp & 7) of the faced neighbour's RAM iff the sense-1 access test
\* against that neighbour, with the executing cell's own logo as the guess,
\* allows it, and otherwise leaves the neighbour's RAM unchanged; in both
\* cases the executing cell's own RAM is unchanged (a mutation apart); a READM
\* on the same band reads that byte whatever the neighbour.
C18_NeighbourWrite ==
  [][ LET self == << x, y >>
          nb == getNeighbor(x, y, pond[self].facing)
          slot == 8 + (ptr_mem' % 8)
      IN  /\ (Dispatched(OP_WRITEM) /\ ptr_mem' \in 24 .. 31) =>
               /\ pond'[nb].ram =
                    IF accessAllowed(pond[nb], pond[self].logo, 1, lastRnd')
                    THEN [pond[nb].ram EXCEPT ![slot] = reg' % 256]
                    ELSE pond[nb].ram
               /\ [pond'[nb] EXCEPT !.ram = pond[nb].ram] = pond[nb]
               /\ nMut' = nMut => pond'[self].ram = pond[self].ram
          /\ (Dispatched(OP_READM) /\ ptr_mem' \in 24 .. 31) =>
               /\ reg' = pond[nb].ram[slot]
               /\ pond'[nb] = pond[nb] ]_vars

\* the cell at (0, 0), with logo 31 and reg = 1, has written 1 to byte 8 of
\* the viable cell with logo 31 it faces on the draw 2, which the guess reg
\* would not have allowed
C18_Witness ==
  /\ pc = "exec"
  /\ inst = OP_WRITEM
  /\ ptr_mem = 24
  /\ reg = 1
  /\ lastRnd = 2
  /\ pond[<< 0, 0 >>].logo = 31
  /\ pond[<< 0, 1 >>].logo = 31
  /\ pond[<< 0, 1 >>].parentID = 4
  /\ pond[<< 0, 1 >>].ram[8] = 1
  /\ ~accessAllowed(pond[<< 0, 1 >>], reg, 1, lastRnd)


\* C19: every memory-window read (by READM and by the operand read of ADD,
\* SUB, MUL, DIV), at any address 0x00..0x1f, and every WRITEM, at any
\* address, increments exactly one of the four counters of its kind (special,
\* private, output, input), by one: the counter of the band mp addresses.
C19_Counted ==
  [][ LET band == (ptr_mem' \div 8) + 1
          reads(sc) == << sc.memSpecialReads, sc.memPrivateReads,
                          sc.memOutputReads, sc.memInputReads >>
          writes(sc) == << sc.memSpecialWrites, sc.memPrivateWrites,
                           sc.memOutputWrites, sc.memInputWrites >>
      IN  /\ (\E op \in { OP_READM, OP_ADD, OP_SUB, OP_MUL, OP_DIV } :
                 Dispatched(op)) =>
               /\ reads(statCounters') =
                    [reads(statCounters) EXCEPT ![band] = @ + 1]
               /\ writes(statCounters') = writes(statCounters)
          /\ Dispatched(OP_WRITEM) =>
               /\ writes(statCounters') =
                    [writes(statCounters) EXCEPT ![band] = @ + 1]
               /\ reads(statCounters') = reads(statCounters) ]_vars


\* C20: the pick of a cell increments cellExecutions by one and changes no
\* cell; if the cell picked has energy 0 when its execution begins (as
\* whenever the cell being executed has energy 0), the step that follows ends
\* the tick: it fetches no instruction, attempts no birth and changes no field
\* of any cell of the pond.
C20_NoEnergy ==
  [][ /\ (pc = "pick" /\ pc' # pc) =>
           /\ pc' = "exec"
           /\ pond' = pond
           /\ statCounters' = [statCounters EXCEPT !.cellExecutions = @ + 1]
      /\ (pc = "exec" /\ pond[<< x, y >>].energy = 0) =>
           /\ pc' = "report"
           /\ pond' = pond
           /\ inst' = inst
           /\ instPtr' = instPtr
           /\ statCounters' = statCounters
           /\ cellIdCounter' = cellIdCounter
           /\ idLog' = idLog
           /\ lastAccess' = "none" ]_vars

\* the cell at (0, 0), which holds a genome and no energy and faces a cell
\* with energy, was picked, and the tick has ended without an instruction
C20_Witness ==
  /\ pc = "report"
  /\ x = 0 /\ y = 0
  /\ pond[<< 0, 0 >>] = VMCell(GenomeAttack, 0)
  /\ pond[<< 0, 1 >>].energy = 4
  /\ statCounters.cellExecutions = 1
  /\ \A i \in 0 .. NUM_INST - 1 : statCounters.instructionExecutions[i] = 0
  /\ instPtr = EXEC_START_INST
  /\ ~stop


\* C21: when LOOP is dispatched with reg # 0 while the loop stack holds
\* POND_DEPTH entries, nothing is pushed, stop is set and nothing else is
\* written but what every iteration writes (the energy charged, the count of
\* the instruction, the next slot); the fetch-execute loop is left at once,
\* the tick ends as every tick does, and in every reachable state the loop
\* stack pointer is at most POND_DEPTH.
C21_LoopOverflow ==
  /\ [](loopStackPtr <= POND_DEPTH)
  /\ [][ /\ (Dispatched(OP_LOOP) /\ reg' # 0 /\ loopStackPtr >= POND_DEPTH) =>
             /\ loopStack' = loopStack
             /\ stop'
             /\ ~LoopCond'
             /\ falseLoopDepth' = 0
             /\ outputBuf' = outputBuf
             /\ ptr_ioPtr' = ptr_ioPtr
             /\ cellIdCounter' = cellIdCounter
             /\ instPtr' = NextSlot(instPtr)
             /\ nMut' = nMut =>
                  /\ reg' = reg
                  /\ ptr_mem' = ptr_mem
                  /\ pond' = [pond EXCEPT ![<< x, y >>].energy = @ - 1]
                  /\ statCounters' =
                       [statCounters EXCEPT
                          !.instructionExecutions[OP_LOOP] = @ + 1]
         /\ (pc = "exec" /\ stop /\ vars' # vars) =>
              (pc' = "report" /\ clock' = clock + 1) ]_vars

\* a LOOP has just found the loop stack full: stop is set with energy left
C21_Witness ==
  /\ pc = "exec"
  /\ stop
  /\ inst = OP_LOOP
  /\ reg # 0
  /\ loopStackPtr = POND_DEPTH
  /\ instPtr = 3
  /\ pond[<< x, y >>].energy > 0
  /\ pond[<< x, y >>].genome = GenomeOverflow


\* the value of reg an instruction finds: that of the mutation, if the
\* iteration injected one into reg
RegIn ==
  IF lastMut' # NoMut /\ Bit(lastMut', 17) = 1 /\ Bit(lastMut', 16) = 0
  THEN lastMut' % 256 ELSE reg

\* C22: DIV with M(mp) = 0 sets reg to 0 and the execution goes on; DIV with
\* M(mp) = t # 0 sets reg to reg \div t; in both cases nothing else changes
\* but the read counters and what every iteration changes (the energy
\* charged, the count of the instruction, the next slot, and what a mutation
\* wrote).
C22_Div ==
  [][ Dispatched(OP_DIV) =>
        LET t == read_mem(pond', x, y, ptr_mem')
            others(sc) == [sc EXCEPT !.memSpecialReads = 0,
                                     !.memPrivateReads = 0,
                                     !.memOutputReads = 0,
                                     !.memInputReads = 0,
                                     !.instructionExecutions[OP_DIV] = 0]
        IN  /\ reg' = IF t = 0 THEN 0 ELSE RegIn \div t
            /\ ~stop'
            /\ instPtr' = NextSlot(instPtr)
            /\ loopStack' = loopStack
            /\ falseLoopDepth' = 0
            /\ outputBuf' = outputBuf
            /\ ptr_ioPtr' = ptr_ioPtr
            /\ cellIdCounter' = cellIdCounter
            /\ others(statCounters') = others(statCounters)
            /\ statCounters'.instructionExecutions[OP_DIV] =
                 statCounters.instructionExecutions[OP_DIV] + 1
            /\ \A p \in Pos \ { << x, y >> } : pond'[p] = pond[p]
            /\ [pond'[<< x, y >>] EXCEPT !.ram = pond[<< x, y >>].ram] =
                 [pond[<< x, y >>] EXCEPT !.energy = @ - 1]
            /\ lastMut' = NoMut =>
                 /\ ptr_mem' = ptr_mem
                 /\ pond'[<< x, y >>].ram = pond[<< x, y >>].ram ]_vars

\* the cell at (0, 0) has divided reg = 36 by byte 15 of the RAM of the empty
\* cell it faces, which is 0 (a mutation had set mp to 31): reg is 0 and the
\* execution goes on
C22_Witness ==
  /\ pc = "exec"
  /\ inst = OP_DIV
  /\ instPtr = 9
  /\ ptr_mem = 31
  /\ lastMut = 65536 + 3 * 32 + 31
  /\ reg = 0
  /\ ~stop
  /\ statCounters.memPrivateReads = 3
  /\ statCounters.memInputReads = 1
  /\ pond[<< 0, 0 >>].genome = GenomeReads
  /\ pond[getNeighbor(0, 0, 0)].ram[15] = 0


\* C23: in a run without mutations a cell's genome changes only by a seeding
\* of that cell, by a permitted KILL against it, by a birth onto it, or by a
\* WRITEG or an XCHG the cell itself executes; an iteration of a cell whose
\* genome holds no WRITEG and no XCHG leaves that genome as it is; and the
\* genome of a child is the output buffer of its parent, codon for codon.
C23_GenomeFrame ==
  [][ nMut' = 0 =>
        LET self == << x, y >>
            nb == getNeighbor(x, y, pond[self].facing)
        IN  /\ \A p \in Pos :
                 pond'[p].genome # pond[p].genome =>
                   \/ SeedStep /\ p = << x', y' >>
                   \/ Dispatched(OP_KILL) /\ lastAccess' = "allowed" /\ p = nb
                   \/ BirthStep /\ p = nb
                   \/ Dispatched(OP_WRITEG) /\ p = self
                   \/ Dispatched(OP_XCHG) /\ p = self
            /\ (/\ Iteration
                /\ \A k \in 1 .. Len(pond[self].genome) :
                     pond[self].genome[k] \notin { OP_WRITEG, OP_XCHG }) =>
                 pond'[self].genome = pond[self].genome
            /\ BirthStep =>
                 /\ nb # self
                 /\ \A i \in 0 .. POND_DEPTH - 1 :
                      Codon(pond'[nb].genome, i) = Codon(outputBuf, i)
                 /\ pond'[self].genome = pond[self].genome ]_vars

\* without a mutation, the cell at (0, 0) has run its genome, which it still
\* holds, and has given the cell it faces the one codon of its output buffer
C23_Witness ==
  /\ pc = "report"
  /\ nMut = 0
  /\ idLog # << >>
  /\ LastId.event = "birth"
  /\ outputBuf = << OP_FWD >>
  /\ pond[getNeighbor(0, 0, 0)].genome = << OP_FWD >>
  /\ pond[getNeighbor(0, 0, 0)].ID = LastId.id
  /\ pond[<< 0, 0 >>].genome = GenomeAttack


\* C24: for every cell (x, y) of a pond of W by H cells and every direction
\* code dir of five bits, getNeighbor returns the cell at ((x + xo) mod W,
\* (y + yo) mod H), (xo, yo) being the offset of direction dirmap[dir] in the
\* table of the neighbour test: on odd rows (1,-1), (1,0), (1,1), (0,1),
\* (-1,0), (0,-1) and on even rows (0,-1), (1,0), (0,1), (-1,1), (-1,0),
\* (-1,-1) for the directions 0..5; dirmap[dir] is one of 0..5, so the return
\* after the switch is not reached.
C24_Neighbor ==
  gn.phase = "return" =>
    LET odd == << << 1, -1 >>, << 1, 0 >>, << 1, 1 >>,
                  << 0, 1 >>, << -1, 0 >>, << 0, -1 >> >>
        even == << << 0, -1 >>, << 1, 0 >>, << 0, 1 >>,
                   << -1, 1 >>, << -1, 0 >>, << -1, -1 >> >>
        d == dirmap[gn.dir + 1]
    IN  /\ d \in 0 .. 5
        /\ LET o == IF gn.y % 2 = 1 THEN odd[d + 1] ELSE even[d + 1] IN
           gn.result = << (gn.W + gn.x + o[1]) % gn.W,
                          (gn.H + gn.y + o[2]) % gn.H >>

\* the direction code 10, which dirmap takes to direction 3, from the last
\* cell of the last (odd) row of a pond of 4 by 4: the row wraps to row 0
C24_Witness ==
  /\ gn.phase = "return"
  /\ gn.W = 4 /\ gn.H = 4
  /\ gn.x = 3 /\ gn.y = 3
  /\ gn.dir = 10
  /\ gn.result = << 3, 0 >>


\* C25: in a pond of 4 by 4 cells the neighbour of cell (0, 0) in direction
\* DIR_5 is (3, 3), and the neighbour of cell (0, 1) in direction DIR_5 is
\* (3, 0).
C25_Wrap ==
  (gn.phase = "return" /\ gn.W = 4 /\ gn.H = 4 /\ gn.dir = 5 /\ gn.x = 0) =>
     /\ gn.y = 0 => gn.result = << 3, 3 >>
     /\ gn.y = 1 => gn.result = << 3, 0 >>

\* C25, amended: in a pond of 4 by 4 cells the neighbour of cell (0, 0) in
\* direction DIR_5 is (3, 3), and the neighbour of cell (0, 1), which is on an
\* odd row, in direction DIR_5 is (0, 0).
C25_WrapOddRow ==
  (gn.phase = "return" /\ gn.W = 4 /\ gn.H = 4 /\ gn.dir = 5 /\ gn.x = 0) =>
     /\ gn.y = 0 => gn.result = << 3, 3 >>
     /\ gn.y = 1 => gn.result = << 0, 0 >>

\* the call for cell (0, 1) and DIR_5 in the pond of 4 by 4 has returned
C25_Witness ==
  /\ gn.phase = "return"
  /\ gn.W = 4 /\ gn.H = 4
  /\ gn.x = 0 /\ gn.y = 1
  /\ gn.dir = 5
  /\ gn.result = << 0, 0 >>


C27_SetpBounded ==
  /\ sp.phase \in { "use", "done" } => sp.m.ptr_ioPtr < sp.depth
  /\ sp.phase = "done" => sp.indices \subseteq 0 .. sp.depth - 1


\* the genome of the cell being executed holds no REP
NoRep == \A k \in 1 .. Len(pond[<< x, y >>].genome) :
           pond[<< x, y >>].genome[k] # OP_REP

\* C28: while falseLoopDepth > 0 every instruction fetched costs one unit of
\* energy and moves the instruction pointer to the next slot, no counter of
\* executions is incremented, and an opcode other than LOOP and REP changes
\* nothing else: STOP does not set stop, KILL, SHARE, WRITEG and WRITEM write
\* nothing.  A cell in skip mode whose genome holds no REP stays in skip mode,
\* around the end of the genome, and its execution ends, with its energy at
\* zero.
C28_SkipFrame ==
  /\ [][ /\ Skipped =>
             LET self == << x, y >> IN
             /\ pond'[self].energy = pond[self].energy - 1
             /\ instPtr' = NextSlot(instPtr)
             /\ statCounters' = statCounters
             /\ ~stop'
             /\ (inst' \notin { OP_LOOP, OP_REP } /\ lastMut' = NoMut) =>
                  /\ falseLoopDepth' = falseLoopDepth
                  /\ pond' = [pond EXCEPT ![self].energy = @ - 1]
                  /\ reg' = reg
                  /\ ptr_mem' = ptr_mem
                  /\ ptr_ioPtr' = ptr_ioPtr
                  /\ outputBuf' = outputBuf
                  /\ loopStack' = loopStack
                  /\ cellIdCounter' = cellIdCounter
                  /\ idLog' = idLog
         /\ (pc = "exec" /\ falseLoopDepth # 0 /\ NoRep /\ nMut' = 0
               /\ vars' # vars) =>
              \/ pc' = "exec" /\ falseLoopDepth' # 0
              \/ pc' = "report" /\ pond[<< x, y >>].energy = 0 ]_vars
  /\ (pc = "exec" /\ falseLoopDepth # 0 /\ NoRep) ~>
       (pc = "report" /\ pond[<< x, y >>].energy = 0)

\* in skip mode, after the instruction pointer went once around the genome,
\* the KILL in slot 1 has been met a second time: no id was handed out beyond
\* that of the seeding, and no execution was counted but that of the LOOP
C28_Witness ==
  /\ pc = "exec"
  /\ falseLoopDepth = 2
  /\ inst = OP_KILL
  /\ instPtr = 2
  /\ ~stop
  /\ pond[<< x, y >>].genome = GenomeSkip
  /\ pond[<< x, y >>].energy = INFLOW_RATE_BASE - (POND_DEPTH + 2)
  /\ Len(idLog) = 1
  /\ statCounters.instructionExecutions[OP_KILL] = 0
  /\ statCounters.instructionExecutions[OP_LOOP] = 1


\* C29: when the mutation test fires, the second word drawn, w, overwrites
\* exactly one of: the instruction fetched (bits 17 and 16 of w are 11;
\* w & 0x1f), reg (10; w & 0xff), ptr_mem (01; w & 0x1f), the byte
\* (w >> 8) & 0xf of the RAM of the executing cell (00; w & 0xff).  The
\* iteration then charges and dispatches as an iteration that had found the
\* machine so: the instruction counted and dispatched is the overwritten one;
\* the codon stored at the instruction pointer and the other cells are
\* written by the instruction dispatched only.
C29_Mutation ==
  [][ (Iteration /\ lastMut' # NoMut) =>
        LET self == << x, y >>
            w == lastMut'
            m0 == Fetch(Machine)
            bits == << Bit(w, 17), Bit(w, 16) >>
            mm == CASE bits = << 1, 1 >> -> [m0 EXCEPT !.inst = w % 32]
                    [] bits = << 1, 0 >> -> [m0 EXCEPT !.reg = w % 256]
                    [] bits = << 0, 1 >> -> [m0 EXCEPT !.ptr_mem = w % 32]
                    [] bits = << 0, 0 >> ->
                         [m0 EXCEPT !.pond[self].ram[(w \div 256) % 16] = w % 256]
        IN  /\ inst' = IF bits = << 1, 1 >> THEN w % 32
                       ELSE Codon(pond[self].genome, instPtr)
            /\ falseLoopDepth = 0 =>
                 statCounters'.instructionExecutions[inst'] =
                   statCounters.instructionExecutions[inst'] + 1
            /\ inst' \notin { OP_WRITEG, OP_XCHG } =>
                 pond'[self].genome = pond[self].genome
            /\ (inst' \notin { OP_KILL, OP_SHARE, OP_WRITEM }
                  \/ falseLoopDepth # 0) =>
                 /\ \A p \in Pos \ { self } : pond'[p] = pond[p]
                 /\ pond'[self].energy = pond[self].energy - 1
            /\ (bits = << 0, 0 >>
                  /\ (inst' \notin { OP_WRITEM, OP_CLEARM } \/ falseLoopDepth # 0)) =>
                 pond'[self].ram =
                   [pond[self].ram EXCEPT ![(w \div 256) % 16] = w % 256]
            /\ \E rnd2 \in Rnd2Draws(mm) :
                 LET n == Iterate(mm, lastRnd', rnd2) IN
                 /\ pond' = n.pond
                 /\ reg' = n.reg
                 /\ ptr_mem' = n.ptr_mem
                 /\ inst' = n.inst
                 /\ instPtr' = n.instPtr
                 /\ stop' = n.stop
                 /\ falseLoopDepth' = n.falseLoopDepth
                 /\ loopStack' = n.loopStack
                 /\ outputBuf' = n.outputBuf
                 /\ ptr_ioPtr' = n.ptr_ioPtr
                 /\ statCounters' = n.statCounters
                 /\ cellIdCounter' = n.cellIdCounter ]_vars

\* a mutation has written 255 to byte 15 of the RAM of the cell at (0, 0)
\* before its first instruction, a KILL, which was dispatched as fetched
C29_Witness ==
  /\ pc = "exec"
  /\ nMut = 1
  /\ lastMut = 4096 + 15 * 256 + 255
  /\ inst = OP_KILL
  /\ instPtr = 1
  /\ pond[<< 0, 0 >>].ram = [VMRam EXCEPT ![15] = 255]
  /\ pond[<< 0, 0 >>].genome = GenomeAttack
  /\ pond[<< 0, 0 >>].energy = 89
  /\ statCounters.instructionExecutions[OP_KILL] = 1


\* C30: TURN changes the facing of no cell: it sets reg to the codon at
\* ptr_ioPtr of the genome of the executing cell, or, only when the executing
\* cell and the cell it faces both have generation >= 3 and the access test of
\* sense 0 with the guess reg allows it, to the codon at ptr_ioPtr of one of
\* the two genomes, and writes nothing else.  The facing of a cell changes
\* only by a WRITEM of that cell at address 0x01, or to 0 by a seeding of the
\* cell, a permitted KILL of it or a birth onto it.
C30_Turn ==
  [][ LET self == << x, y >>
          nb == getNeighbor(x, y, pond[self].facing)
      IN  /\ Dispatched(OP_TURN) =>
               LET own == Codon(pond[self].genome, ptr_ioPtr)
                   other == Codon(pond[nb].genome, ptr_ioPtr)
                   both == pond[self].generation >= 3 /\ pond[nb].generation >= 3
               IN  /\ \A p \in Pos : pond'[p].facing = pond[p].facing
                   /\ IF both /\ accessAllowed(pond[nb], RegIn, 0, lastRnd')
                      THEN reg' \in { own, other }
                      ELSE reg' = own
                   /\ \A p \in Pos \ { self } : pond'[p] = pond[p]
                   /\ [pond'[self] EXCEPT !.ram = pond[self].ram] =
                        [pond[self] EXCEPT !.energy = @ - 1]
                   /\ ptr_ioPtr' = ptr_ioPtr
                   /\ outputBuf' = outputBuf
                   /\ loopStack' = loopStack
                   /\ cellIdCounter' = cellIdCounter
                   /\ ~stop'
          /\ \A p \in Pos :
               pond'[p].facing # pond[p].facing =>
                 \/ Dispatched(OP_WRITEM) /\ ptr_mem' = 1 /\ p = self
                 \/ /\ pond'[p].facing = 0
                    /\ \/ SeedStep /\ p = << x', y' >>
                       \/ Dispatched(OP_KILL) /\ lastAccess' = "allowed" /\ p = nb
                       \/ BirthStep /\ p = nb ]_vars

\* the first TURN of the cell at (0, 0) was allowed by the viable cell it
\* faces and has read the one codon of that cell's genome; the cell at (0, 0)
\* faces where it did
C30_Witness ==
  /\ pc = "exec"
  /\ inst = OP_TURN
  /\ instPtr = 1
  /\ lastAccess = "allowed"
  /\ reg = OP_INC
  /\ pond[<< 0, 0 >>].genome = GenomeTurn
  /\ pond[<< 0, 0 >>].facing = 0
  /\ pond[getNeighbor(0, 0, 0)].genome = << OP_INC >>
  /\ pond[getNeighbor(0, 0, 0)].generation = 3

\* C31: a dispatched XCHG takes the slot after its own (slot 0 when it is in
\* the last slot) as its operand: reg becomes the codon that slot held, the
\* slot receives reg & 0x1f, no other codon changes, and the instruction
\* pointer is left on the slot after the operand, so that the operand is not
\* the next instruction fetched; an XCHG in the last slot uses slot 0 and
\* leaves the instruction pointer on slot 1.
C31_Xchg ==
  [][ Dispatched(OP_XCHG) =>
        LET self == << x, y >>
            g == pond[self].genome
            operand == IF instPtr = POND_DEPTH - 1 THEN 0 ELSE instPtr + 1
        IN  /\ reg' = Codon(g, operand)
            /\ Codon(pond'[self].genome, operand) = RegIn % 32
            /\ \A k \in 0 .. POND_DEPTH - 1 :
                 k # operand => Codon(pond'[self].genome, k) = Codon(g, k)
            /\ instPtr' = (IF operand = POND_DEPTH - 1 THEN 0 ELSE operand + 1)
            /\ instPtr = POND_DEPTH - 1 => operand = 0 /\ instPtr' = 1
            /\ ~stop' ]_vars

\* the XCHG in the last slot of GenomeXchg has run: it was reached because
\* the STOP in slot 1, the operand of the XCHG in slot 0, was stepped over;
\* it took the XCHG of slot 0 into reg, left 253 & 0x1f there, and the
\* instruction pointer is on slot 1
C31_Witness ==
  /\ pc = "exec"
  /\ inst = OP_XCHG
  /\ instPtr = 1
  /\ reg = OP_XCHG
  /\ Codon(pond[<< x, y >>].genome, 0) = 29
  /\ Codon(pond[<< x, y >>].genome, POND_DEPTH - 1) = OP_XCHG

\* C32: in one tick the executing cell runs at most as many iterations of
\* the core execution loop as the energy it held when the loop was entered;
\* no iteration leaves it more energy than it found, and an iteration runs
\* only while the cell has energy.
C32_Bounded ==
  [][ LET self == << x, y >>
          iter == pc = "exec" /\ pc' = "exec" /\ vars' # vars
      IN  /\ pc' = "exec" => run'.steps <= run'.energy
          /\ iter => pond[self].energy > 0
          /\ iter => pond'[self].energy <= pond[self].energy ]_vars

\* C32, amended: in one tick the executing cell runs at most as many
\* iterations as the energy it held when the loop was entered plus the energy
\* that permitted SHAREs moved to it from a richer neighbour; an iteration
\* leaves the cell more than its energy after the charge only when it is such
\* a SHARE, which leaves it the larger half of the two energies; and an
\* iteration runs only while the cell has energy.
C32_BoundedByShare ==
  [][ LET self == << x, y >>
          nb == getNeighbor(x, y, pond[self].facing)
          iter == pc = "exec" /\ pc' = "exec" /\ vars' # vars
          charged == pond[self].energy - 1
          pot == charged + pond[nb].energy
      IN  /\ pc' = "exec" =>
               pond'[<< x', y' >>].energy + run'.steps <=
                 run'.energy + run'.gained
          /\ iter => pond[self].energy > 0
          /\ iter /\ pond'[self].energy > charged =>
               /\ Dispatched(OP_SHARE)
               /\ lastAccess' = "allowed"
               /\ pond[nb].energy > charged
               /\ pond'[self].energy = pot - (pot \div 2)
               /\ run'.gained = run.gained + (pond'[self].energy - charged) ]_vars

\* the cell at (0, 0) entered the loop with an energy of 1; its first
\* instruction, a permitted SHARE with a neighbour holding 4, left it 2, and
\* it has run three iterations
C32_Witness ==
  /\ pc = "exec"
  /\ << x, y >> = << 0, 0 >>
  /\ pond[<< 0, 0 >>].genome = GenomeShare
  /\ run = [ energy |-> 1, steps |-> 3, gained |-> 2 ]
  /\ pond[<< 0, 0 >>].energy = 0
  /\ instPtr = 3

\* C33: no energy is ever below zero; every iteration of the core execution
\* loop lowers the total energy of the pond by at least one; a permitted
\* SHARE moves energy between the executing cell and the cell it faces only,
\* the two keeping together what they held after the charge; a KILL leaves
\* the energy of its target; a birth takes REPRODUCTION_COST from the parent
\* and leaves every other energy; and the total energy rises only in a
\* seeding.
C33_Energy ==
  [][ LET self == << x, y >>
          nb == getNeighbor(x, y, pond[self].facing)
          iter == pc = "exec" /\ pc' = "exec" /\ vars' # vars
      IN  /\ \A p \in Pos : pond[p].energy >= 0 /\ pond'[p].energy >= 0
          /\ iter => SumEnergy(pond', Pos) <= SumEnergy(pond, Pos) - 1
          /\ Dispatched(OP_SHARE) /\ lastAccess' = "allowed" =>
               /\ pond'[self].energy + pond'[nb].energy =
                    (pond[self].energy - 1) + pond[nb].energy
               /\ \A p \in Pos \ { self, nb } : pond'[p].energy = pond[p].energy
          /\ Dispatched(OP_KILL) =>
               /\ pond'[nb].energy = pond[nb].energy
               /\ pond'[self].energy <= pond[self].energy - 1
          /\ BirthStep =>
               /\ pond[self].energy >= REPRODUCTION_COST
               /\ pond'[self].energy = pond[self].energy - REPRODUCTION_COST
               /\ \A p \in Pos \ { self } : pond'[p].energy = pond[p].energy
          /\ SumEnergy(pond', Pos) > SumEnergy(pond, Pos) =>
               /\ SeedStep
               /\ \A p \in Pos \ { << x', y' >> } : pond'[p].energy = pond[p].energy
    ]_vars

\* the cell at (0, 0) entered the loop with an energy of 22, lost a third of
\* what it held in each of two denied KILLs of its viable neighbour, and has
\* stopped with 5, less than a birth costs, and a filled output buffer: the
\* tick ended without a birth and without a debit
C33_Witness ==
  /\ pc = "report"
  /\ << x, y >> = << 0, 0 >>
  /\ pond[<< 0, 0 >>].genome = GenomeAttack
  /\ pond[<< 0, 0 >>].energy = 5
  /\ Codon(outputBuf, 0) # OP_STOP
  /\ pond[getNeighbor(0, 0, 0)].energy = 4
  /\ pond[getNeighbor(0, 0, 0)].generation = 3
  /\ idLog = << >>

\* C34: no cell ever holds more than (CELL_ENERGY_CAP - 1) + INFLOW_RATE_BASE
\* + (INFLOW_RATE_VARIATION - 1) = 15998: a seeding raises the energy of the
\* cell it seeds only if that energy was below CELL_ENERGY_CAP, and by at
\* most INFLOW_RATE_BASE + INFLOW_RATE_VARIATION - 1; and no iteration of the
\* core execution loop, a SHARE included, leaves the executing cell or the
\* cell it faces more than the larger of their two energies before it.
C34_EnergyCap ==
  [][ LET self == << x, y >>
          nb == getNeighbor(x, y, pond[self].facing)
          iter == pc = "exec" /\ pc' = "exec" /\ vars' # vars
          larger == IF pond[self].energy >= pond[nb].energy
                    THEN pond[self].energy ELSE pond[nb].energy
      IN  /\ \A p \in Pos :
               /\ pond[p].energy <= 15998
               /\ pond'[p].energy <=
                    (CELL_ENERGY_CAP - 1) + INFLOW_RATE_BASE
                      + (INFLOW_RATE_VARIATION - 1)
          /\ \A p \in Pos :
               SeedStep /\ pond'[p].energy > pond[p].energy =>
                 /\ p = << x', y' >>
                 /\ pond[p].energy < CELL_ENERGY_CAP
                 /\ pond'[p].energy - pond[p].energy <=
                      INFLOW_RATE_BASE + INFLOW_RATE_VARIATION - 1
          /\ iter =>
               /\ pond'[self].energy <= larger
               /\ pond'[nb].energy <= larger
               /\ \A p \in Pos \ { self, nb } : pond'[p].energy = pond[p].energy
    ]_vars

\* the cell at (0, 0) held CELL_ENERGY_CAP - 1 and has just been seeded with
\* the largest variation: it holds 15998
C34_Witness ==
  /\ pc = "pick"
  /\ << x, y >> = << 0, 0 >>
  /\ idLog # << >>
  /\ LastId.event = "seed"
  /\ pond[<< 0, 0 >>].ID = LastId.id
  /\ pond[<< 0, 0 >>].energy = 15998

\* C35: a cell whose parentID is 0 has generation 0: a birth leaves the child
\* a parentID other than 0.
C35_ParentZero ==
  [][ /\ \A p \in Pos : pond'[p].parentID = 0 => pond'[p].generation = 0
      /\ BirthStep =>
           pond'[getNeighbor(x, y, pond[<< x, y >>].facing)].parentID # 0
    ]_vars

\* C36: every cell has lineage <= ID <= cellIdCounter; a cell of generation 0
\* has lineage = ID and parentID = 0; a cell of generation >= 1 has
\* lineage <= parentID < ID.
C36_Lineage ==
  \A p \in Pos :
    LET c == pond[p] IN
    /\ c.lineage <= c.ID
    /\ c.ID <= cellIdCounter
    /\ c.generation >= 0
    /\ c.generation = 0 => c.lineage = c.ID /\ c.parentID = 0
    /\ c.generation >= 1 => c.lineage <= c.parentID /\ c.parentID < c.ID

\* a tick has ended with a birth: the child of the cell at (0, 0), which has
\* ID 7 and lineage 1, has the newest id, parentID 7 and lineage 1; and an
\* earlier KILL of that tick has left a cell of generation 0
C36_Witness ==
  /\ pc = "report"
  /\ idLog # << >>
  /\ LastId.event = "birth"
  /\ \E i \in 1 .. Len(idLog) : idLog[i].event = "kill"
  /\ \E p \in Pos :
       /\ pond[p].ID = cellIdCounter
       /\ pond[p].parentID = 7
       /\ pond[p].lineage = 1
       /\ pond[p].generation = 4

\* C37: in a pond with an even number of rows, the neighbour in direction
\* (d + 3) mod 6 of the neighbour in direction d of a cell is that cell, for
\* every cell and every d in 0 .. 5, the wrap at the edges included; and in
\* a pond of at least two columns and two rows no cell is its own neighbour
\* in any direction.
C37_Symmetric ==
  /\ (gn.phase = "back" /\ gn.H % 2 = 0) => gn.back = << gn.x, gn.y >>
  /\ (gn.phase \in { "return", "back" } /\ gn.W >= 2 /\ gn.H >= 2) =>
       gn.result # << gn.x, gn.y >>

\* in the pond of three columns and two rows the neighbour of (0, 0) in
\* direction 5 is (2, 1), across both edges, and the neighbour of (2, 1) in
\* direction 2 is (0, 0)
C37_Witness ==
  /\ gn.phase = "back"
  /\ gn.W = 3 /\ gn.H = 2
  /\ gn.x = 0 /\ gn.y = 0
  /\ gn.dir = 5
  /\ gn.result = << 2, 1 >>
  /\ gn.back = << 0, 0 >>

\* C38: a seeding changes the cell it seeds only, and no step before the
\* core execution loop changes another cell; an iteration of the loop changes
\* at most the executing cell and the cell it faced when the iteration
\* began; the end of the tick changes, when a birth happens, the energy of the
\* executing cell and the cell it faces, and nothing otherwise; so that the
\* cells changed while a cell executes are the cell itself and cells adjacent
\* to it.
C38_Frame ==
  [][ LET self == << x, y >>
          nb == getNeighbor(x, y, pond[self].facing)
          iter == pc = "exec" /\ pc' = "exec" /\ vars' # vars
          changed == { p \in Pos : pond'[p] # pond[p] }
      IN  /\ pc # "exec" =>
               IF SeedStep THEN changed \subseteq { << x', y' >> }
               ELSE changed = { }
          /\ iter => changed \subseteq { self, nb }
          /\ (pc = "exec" /\ pc' = "report") =>
               IF BirthStep
               THEN /\ changed \subseteq { self, nb }
                    /\ nb \in changed
                    /\ [pond'[self] EXCEPT !.energy = pond[self].energy] =
                         pond[self]
               ELSE changed = { }
          /\ pc = "exec" =>
               changed \subseteq
                 { self } \cup { getNeighbor(x, y, d) : d \in 0 .. DIRECTIONS - 1 }
    ]_vars

\* one WRITEM of the cell at (0, 0), its memory pointer set to 0x1f by a
\* mutation, has written 255 to the last RAM byte of the cell faced, and
\* has cost the cell at (0, 0) one unit of energy
C38_Witness ==
  /\ pc = "exec"
  /\ << x, y >> = << 0, 0 >>
  /\ inst = OP_WRITEM
  /\ ptr_mem = 31
  /\ reg = 255
  /\ lastAccess = "allowed"
  /\ pond[<< 0, 0 >>].genome = GenomeWritem
  /\ pond[<< 0, 0 >>].energy = 88
  /\ pond[getNeighbor(0, 0, 0)].ram[15] = 255

====
